---- MODULE Spec2Model ----
(***************************************************************************)
(* The interaction loop of cmd/ai/main.go together with the pieces of      *)
(* internal/aws (ParseCommandResponse), internal/shell (StreamCommand) and *)
(* internal/logger (the append operations, GetRecentHistory and Close)     *)
(* that the loop calls.                                                    *)
(*                                                                         *)
(* Three specifications share the variables:                               *)
(*   Spec        the loop of main, with StreamCommand and the methods of   *)
(*               the Logger as single steps;                               *)
(*   ShellSpec   one call of StreamCommand, with its two drain goroutines  *)
(*               and the subprocess, statement by statement;               *)
(*   LoggerSpec  one Logger called by several goroutines at once.          *)
(*                                                                         *)
(* Text is a sequence of tokens.  A token stands for a piece of text that  *)
(* the program never looks into: a literal of a format string, a word of   *)
(* the request or of a command, one output line of a subprocess.  Output   *)
(* lines carry the turn in which they were produced, so that the origin of *)
(* every piece of a folded query can be told.                              *)
(***************************************************************************)
EXTENDS Integers, Sequences, FiniteSets, TLC

\* ------------------------------------------------------------------ bounds

\* Number of loop cycles explored (the code has no cap on them).
MaxTurns == 2

\* ------------------------------------------------------------------ text

Lit(s) == [k |-> "lit", v |-> s, n |-> 0]

Word(s) == [k |-> "word", v |-> s, n |-> 0]

\* The i-th line written to a stream by the command of turn t, with its "\n".
Line(stream, t, i) == [k |-> stream, v |-> "line", n |-> 10 * t + i]

IsLineOfTurn(tok, t) == tok.k \in {"stdout", "stderr"} /\ tok.n \div 10 = t

\* strings.ToLower on the characters a confirmation answer is made of.
LowerChar(c) ==
    CASE c = "Y" -> "y"
      [] c = "E" -> "e"
      [] c = "S" -> "s"
      [] c = "N" -> "n"
      [] c = "O" -> "o"
      [] OTHER -> c

ToLower(s) == [i \in 1..Len(s) |-> LowerChar(s[i])]

\* ------------------------------------------------------------------ log

Entry(kind, msg, arg) == [kind |-> kind, msg |-> msg, arg |-> arg]

\* Logger.LogCommand: "\n[ts] Command: <cmd>\n".
LogCommand(l, c) == Append(l, Entry("Command", "", c))

\* Logger.LogStreamOutput: the line as it is.
LogStreamOutput(l, line) == Append(l, Entry("Output", "", line))

\* Logger.LogInfo: "[ts] Info: <message>\n"; msg is the format, arg its operand.
LogInfo(l, msg, arg) == Append(l, Entry("Info", msg, arg))

\* Logger.LogError: "[ts] Error: <err>\n".
LogError(l, msg, arg) == Append(l, Entry("Error", msg, arg))

\* The LogHandler closure main gives to shell.New.
LogHandler(l, c, o) ==
    LET l1 == IF c # <<>> THEN LogCommand(l, c) ELSE l
    IN  IF o # <<>> THEN LogStreamOutput(l1, o) ELSE l1

BoolText(b) == IF b THEN <<Lit("true")>> ELSE <<Lit("false")>>

\* ------------------------------------------------------------------ model response

(***************************************************************************)
(* A model response is a sequence of response tokens: the opening fence    *)
(* of a json code block, the bare fence, white space, prose, the JSON value *)
(* null, or a JSON object.  Of an object only the five keys of Command     *)
(* matter; each is given by what the object holds under it.                *)
(***************************************************************************)
Tok(kind) ==
    [k |-> kind, safe |-> "absent", command |-> "absent", reason |-> "absent",
     is_final |-> "absent", needs_output |-> "absent"]

FenceJson == Tok("fence_json")

Fence == Tok("fence")

Space == Tok("space")

Prose == Tok("prose")

JsonNull == Tok("null")

Obj(s, c, r, f, n) ==
    [k |-> "obj", safe |-> s, command |-> c, reason |-> r,
     is_final |-> f, needs_output |-> n]

\* What a key of a JSON object can hold, seen from a Go bool field ...
BoolCodes == {"true", "false", "absent", "null", "string"}

\* ... and from a Go string field ("ls" and "" are JSON strings).
StringCodes == {"ls", "", "absent", "null", "number"}

\* aws.Command, and the nil *Command.
Command(s, c, r, f, n) ==
    [Safe |-> s, Command |-> c, Reason |-> r, IsFinal |-> f, NeedsOutput |-> n]

NilCommand == Command(FALSE, <<Lit("<nil>")>>, <<>>, FALSE, FALSE)

\* encoding/json into a bool field: absent and null leave the zero value.
DecodeBool(code) == code = "true"

\* encoding/json into a string field: absent and null leave the zero value.
DecodeString(code) == IF code \in {"absent", "null", ""} THEN <<>> ELSE <<Word(code)>>

TypeError(o) ==
    \/ o.safe = "string"
    \/ o.is_final = "string"
    \/ o.needs_output = "string"
    \/ o.command = "number"
    \/ o.reason = "number"

\* json.Unmarshal([]byte(jsonText), &cmd): the text must be exactly one JSON
\* value; null leaves cmd at its zero value, an object sets the keys it has.
UnmarshalFails(text) ==
    \/ Len(text) # 1
    \/ text[1].k \notin {"obj", "null"}
    \/ text[1].k = "obj" /\ TypeError(text[1])

Unmarshal(text) ==
    LET o == text[1]
    IN  Command(DecodeBool(o.safe), DecodeString(o.command), DecodeString(o.reason),
                DecodeBool(o.is_final), DecodeBool(o.needs_output))

\* strings.Index / strings.LastIndex on token positions; 0 stands for -1.
\* The opening fence begins with the bare fence, so LastIndex of the bare
\* fence also finds an opening fence.
IndexFenceJson(text) ==
    IF \E i \in 1..Len(text) : text[i] = FenceJson
    THEN CHOOSE i \in 1..Len(text) :
             /\ text[i] = FenceJson
             /\ \A j \in 1..(i - 1) : text[j] # FenceJson
    ELSE 0

LastIndexFence(text) ==
    IF \E i \in 1..Len(text) : text[i] \in {Fence, FenceJson}
    THEN CHOOSE i \in 1..Len(text) :
             /\ text[i] \in {Fence, FenceJson}
             /\ \A j \in (i + 1)..Len(text) : text[j] \notin {Fence, FenceJson}
    ELSE 0

\* strings.TrimSpace
RECURSIVE TrimLeft(_)
TrimLeft(text) ==
    IF text # <<>> /\ Head(text) = Space THEN TrimLeft(Tail(text)) ELSE text

RECURSIVE TrimRight(_)
TrimRight(text) ==
    IF text # <<>> /\ text[Len(text)] = Space
    THEN TrimRight(SubSeq(text, 1, Len(text) - 1))
    ELSE text

TrimSpace(text) == TrimRight(TrimLeft(text))

\* The slice between the first opening fence and the last fence, taken only when
\* endIndex > startIndex, that is when something lies between the two.
StripFence(responseText) ==
    LET i == IndexFenceJson(responseText)
        j == LastIndexFence(responseText)
    IN  IF i > 0 /\ j > i + 1 THEN SubSeq(responseText, i + 1, j - 1) ELSE responseText

ParseCommandResponse(responseText) ==
    LET jsonText == TrimSpace(StripFence(responseText))
    IN  IF UnmarshalFails(jsonText)
        THEN [err |-> TRUE, cmd |-> NilCommand]
        ELSE [err |-> FALSE, cmd |-> Unmarshal(jsonText)]

\* The objects the model is let answer with: every well-formed suggestion, and
\* the suggestions in which one key is missing, null or of the wrong type.
WellFormed ==
    {Obj(s, c, "ls", f, n) : s \in {"true", "false"}, c \in {"ls"},
                             f \in {"true", "false"}, n \in {"true", "false"}}

Deficient ==
    {Obj("true", c, "ls", "true", "false") : c \in StringCodes \ {"ls", "null"}}
    \cup {Obj(s, "ls", "ls", "true", "false") : s \in BoolCodes \ {"true", "false"}}
    \cup {Obj("true", "ls", "ls", f, "true") : f \in {"absent", "string"}}
    \cup {Obj("true", "ls", "ls", "false", n) : n \in {"absent", "string"}}
    \cup {Obj("absent", "absent", "absent", "absent", "absent")}

Objects == WellFormed \cup Deficient

\* The ways an answer is wrapped, shown on one object.
Wrapped(o) ==
    { <<Space, o, Space>>,
      <<FenceJson, Space, o, Space, Fence>>,
      <<Prose, FenceJson, o, Fence, Prose>>,
      <<FenceJson, o>>,
      <<Fence, o, Fence>>,
      <<Prose, o>>,
      <<o, o>>,
      <<FenceJson, Fence>> }

Responses ==
    {<<o>> : o \in Objects}
    \cup Wrapped(Obj("false", "ls", "ls", "true", "false"))
    \cup {<<>>, <<Prose>>, <<JsonNull>>}

\* ------------------------------------------------------------------ executor

RECURSIVE Merges(_, _)
Merges(a, b) ==
    IF a = <<>> THEN {b}
    ELSE IF b = <<>> THEN {a}
    ELSE {<<Head(a)>> \o m : m \in Merges(Tail(a), b)}
         \cup {<<Head(b)>> \o m : m \in Merges(a, Tail(b))}

DropOne(m) == {SubSeq(m, 1, i - 1) \o SubSeq(m, i + 1, Len(m)) : i \in 1..Len(m)}

\* What combinedOutput can hold once both drains are done.  Each drain appends
\* its lines in order; the two WriteString calls are not synchronised, so when
\* both streams carry lines a racing write may also lose a line.
Captures(so, se) ==
    Merges(so, se)
    \cup IF so # <<>> /\ se # <<>>
         THEN UNION {DropOne(m) : m \in Merges(so, se)}
         ELSE {}

StreamLines(stream, t, n) == [i \in 1..n |-> Line(stream, t, i)]

\* What a started subprocess does: the number of lines it writes to each of
\* its streams and its exit status.
Processes ==
    { [stdout |-> 0, stderr |-> 0, status |-> 0],
      [stdout |-> 1, stderr |-> 0, status |-> 0],
      [stdout |-> 1, stderr |-> 1, status |-> 1],
      [stdout |-> 0, stderr |-> 1, status |-> 1] }

\* Shell.StreamCommand without its call of LogHandler: the (output, error)
\* pairs it can return for the command of turn t.  Either command.Start fails
\* and nothing was captured, or the process runs, both drains finish, and
\* command.Wait reports the exit status.
StreamCommand(t) ==
    {[output |-> <<>>, err |-> "failed to start command"]}
    \cup UNION {
           {[output |-> o,
             err |-> IF p.status = 0 THEN "nil" ELSE "command failed"] :
                o \in Captures(StreamLines("stdout", t, p.stdout),
                               StreamLines("stderr", t, p.stderr))} :
           p \in Processes}

\* ------------------------------------------------------------------ main

\* A gate that runs the command unless the answer is "n".
AcceptedUnlessNo(a) == a # <<"n">>

\* main.go:361
Accepted(a) == a = <<"y">> \/ a = <<"y", "e", "s">>

\* A decision that looks at is_final alone.
TerminatesOnFinal(c) == c.IsFinal

\* main.go:390
Terminates(c) == c.IsFinal /\ ~c.NeedsOutput

\* A fold that puts the previous query in front of the output.
FoldWithOutputQueryFirst(c, out, query) ==
    <<Lit("To continue with my original request: ")>> \o query
    \o <<Lit("\nI ran the command '")>> \o c \o <<Lit("' and got the output:\n")>> \o out

\* main.go:397
FoldWithOutput(c, out, query) ==
    <<Lit("I ran the command '")>> \o c \o <<Lit("' and got the output:\n")>> \o out
    \o <<Lit("\nPlease provide the next command to continue with my original request: ")>>
    \o query

\* A fold that shows the model the output it did not ask for.
FoldWithoutOutputLeaks(c, out, query) ==
    <<Lit("I successfully ran '")>> \o c \o out
    \o <<Lit("'. What's the next command to continue with my original request: ")>>
    \o query

\* main.go:401
FoldWithoutOutput(c, out, query) ==
    <<Lit("I successfully ran '")>> \o c
    \o <<Lit("'. What's the next command to continue with my original request: ")>>
    \o query

\* main.go:396-403
Fold(c, out, query) ==
    IF c.NeedsOutput
    THEN FoldWithOutput(c.Command, out, query)
    ELSE FoldWithoutOutput(c.Command, out, query)

\* What the scanner can hand back for one line of standard input; end of
\* input gives the empty text.
Answers ==
    { <<"y">>, <<"Y", "E", "S">>, <<"n">>, <<>>, <<" ", "y">>, <<"y", "e">> }

VARIABLES
    pc,             \* where main is
    askModeOnly,    \* main.go:220
    userQuery,      \* main.go:223, rewritten at 397 and 401
    commandCount,   \* main.go:275
    modelResponse,  \* main.go:297
    cmd,            \* main.go:304
    typed,          \* main.go:359, scanner.Text()
    answer,         \* main.go:359
    output,         \* main.go:371
    execErr,        \* main.go:372
    logFile,        \* the entries of ~/.ai/action.log, oldest first
    logOpen,        \* "unopened", "open" or "closed": Logger.logFile
    exitCode,       \* -1 while the process runs, then its exit status
    outcome,        \* the way main ended
    requests,       \* the queries given to GetCommandSuggestion, in order
    prompts,        \* the turns in which the confirmation prompt was shown
    executed        \* the calls of sh.StreamCommand made by main, in order, each
                    \* with the suggestion it ran and what it returned

\* One call of Shell.StreamCommand, shell.go:95-164, step by step.
VARIABLES
    shPc,           \* where the calling goroutine is inside StreamCommand
    process,        \* the subprocess: what it writes to each stream, its exit
                    \* status, and whether it runs or has exited
    pending,        \* per stream, what the subprocess has yet to get rid of
    dpc,            \* per stream, where the drain goroutine is
    line,           \* per stream, the drain's variable line
    offset,         \* per stream, the buffer length WriteString found
    handled,        \* the calls of outputHandler, in order
    combinedOutput, \* shell.go:121
    done,           \* shell.go:124, the number of signals in the channel
    logAtStart      \* the log as it was when command.Start was called

shell ==
    <<shPc, process, pending, dpc, line, offset, handled, combinedOutput, done, logAtStart>>

\* One Logger used by several goroutines at once, logger.go:74-200.
VARIABLES
    mutex,          \* Logger.mutex: 0 when free, else the goroutine that holds it
    disk,           \* the bytes of ~/.ai/action.log, the file logFile shows
                    \* entry by entry
    tpc,            \* per goroutine, where it is inside a method of the Logger
    op,             \* per goroutine, the call it is in and that call's locals
    calls,          \* the number of calls made so far
    order,          \* the texts appended, in the order the appends got the mutex
    completed,      \* the number of appends that have returned
    tails           \* the calls of GetRecentHistory that have returned

logger == <<mutex, disk, tpc, op, calls, order, completed, tails>>

\* One call of waitWithSpinner, main.go:95-169, step by step.
VARIABLES
    backend,        \* the client getClient returned: "aws" or "anthropic"
    apiPc,          \* where the goroutine of main.go:114-122 is
    apiErr,         \* the err of that goroutine
    progPc,         \* where the goroutine of main.go:128-132 is
    waitPc,         \* where the calling goroutine is inside waitWithSpinner
    result,         \* main.go:135
    resultErr,      \* main.go:136
    doneClosed,     \* main.go:111, whether the channel done is closed
    ready           \* whether the response was ready to be sent on responseChan
                    \* when the select of main.go:138 made its choice

wait == <<backend, apiPc, apiErr, progPc, waitPc, result, resultErr, doneClosed, ready>>

\* getClient, main.go:172-210, in one run of the program after the other.
VARIABLES
    apiKeyEnv,      \* the environment variable ANTHROPIC_API_KEY, "" when unset
    configFile,     \* ~/.ai/anthropic.cfg: "absent", "unwritable" (absent in a
                    \* directory that cannot be written), "invalid" (not JSON),
                    \* "no key" (api_key empty) or "key"
    awsOk,          \* whether aws.NewBedrockClient succeeds
    gcPc,           \* where getClient is
    selections      \* the client each run so far got from getClient, in order

client == <<apiKeyEnv, configFile, awsOk, gcPc, selections>>

vars ==
    <<pc, askModeOnly, userQuery, commandCount, modelResponse, cmd, typed, answer,
      output, execErr, logFile, logOpen, exitCode, outcome, requests, prompts, executed,
      shell, logger, wait, client>>

\* What the steps of main leave alone: the flag of the command line, the
\* inside of StreamCommand, which main sees as one call, and the inside of the
\* Logger, whose methods main sees as one step each, and the inside of
\* waitWithSpinner, which main sees as one call.
env == <<askModeOnly, shell, logger, wait, client>>

locals == <<modelResponse, cmd, typed, answer, output, execErr>>

ghosts == <<requests, prompts, executed>>

Streams == {"stdout", "stderr"}

\* No call of StreamCommand is under way.
ShellIdle ==
    /\ shPc = "idle"
    /\ process = [state |-> "none", status |-> 0, stdout |-> <<>>, stderr |-> <<>>]
    /\ pending = [s \in Streams |-> <<>>]
    /\ dpc = [s \in Streams |-> "none"]
    /\ line = [s \in Streams |-> <<>>]
    /\ offset = [s \in Streams |-> 0]
    /\ handled = <<>>
    /\ combinedOutput = <<>>
    /\ done = 0
    /\ logAtStart = <<>>

\* No call of waitWithSpinner is under way.
WaitIdle ==
    /\ backend = "aws"
    /\ apiPc = "none"
    /\ apiErr = "nil"
    /\ progPc = "none"
    /\ waitPc = "idle"
    /\ result = ""
    /\ resultErr = "nil"
    /\ doneClosed = FALSE
    /\ ready = FALSE

\* getClient is not under way and has not been called.
ClientIdle ==
    /\ apiKeyEnv = ""
    /\ configFile = "absent"
    /\ awsOk = TRUE
    /\ gcPc = "idle"
    /\ selections = <<>>

\* Number of goroutines that use the Logger at the same time.
MaxThreads == 2

Threads == 1..MaxThreads

\* A goroutine that is in no method of the Logger.
NoCall ==
    [name |-> "none", text |-> <<>>, n |-> 0, invoked |-> 0, fileSize |-> 0,
     history |-> <<>>, err |-> "nil"]

\* No method of the Logger is under way and the file is seen through logFile.
LoggerIdle ==
    /\ mutex = 0
    /\ disk = <<>>
    /\ tpc = [t \in Threads |-> "idle"]
    /\ op = [t \in Threads |-> NoCall]
    /\ calls = 0
    /\ order = <<>>
    /\ completed = 0
    /\ tails = {}

Init ==
    /\ pc = "start"
    /\ askModeOnly \in BOOLEAN
    /\ userQuery = <<Word("goal")>>
    /\ commandCount = 0
    /\ modelResponse = <<>>
    /\ cmd = NilCommand
    /\ typed = <<>>
    /\ answer = <<>>
    /\ output = <<>>
    /\ execErr = "nil"
    /\ logFile = <<>>
    /\ logOpen = "unopened"
    /\ exitCode = -1
    /\ outcome = "running"
    /\ requests = <<>>
    /\ prompts = <<>>
    /\ executed = <<>>
    /\ ShellIdle
    /\ WaitIdle
    /\ ClientIdle
    /\ LoggerIdle

\* os.Exit(1): the deferred log.Close does not run.
Exit(how) ==
    /\ pc' = "done"
    /\ exitCode' = 1
    /\ outcome' = how
    /\ UNCHANGED logOpen

\* main returns: the deferred log.Close runs and the process exits with 0.
Return(how) ==
    /\ pc' = "done"
    /\ exitCode' = 0
    /\ outcome' = how
    /\ logOpen' = "closed"

\* main.go:213-262, a start that fails: no argument, no logger, no working
\* directory, no file list or no client.
StartupFails ==
    /\ pc = "start"
    /\ \E why \in {"usage", "logger", "cwd", "files", "client"} :
         /\ pc' = "done"
         /\ exitCode' = 1
         /\ outcome' = "startup"
         /\ logOpen' = IF why \in {"usage", "logger"} THEN logOpen ELSE "open"
         /\ logFile' = CASE why = "cwd" ->
                              LogError(logFile, "failed to get current directory", <<>>)
                         [] why = "files" -> LogError(logFile, "failed to list files", <<>>)
                         [] why = "client" ->
                              LogError(logFile, "failed to initialize AI client", <<>>)
                         [] OTHER -> logFile
    /\ UNCHANGED <<env, userQuery, commandCount, locals, ghosts>>

\* main.go:213-272, a start that succeeds.
StartupOk ==
    /\ pc = "start"
    /\ logOpen' = "open"
    /\ logFile' = LogInfo(LogInfo(logFile, "Using client", <<>>),
                          IF askModeOnly THEN "Ask Mode" ELSE "User Query", userQuery)
    /\ pc' = "loop"
    /\ UNCHANGED <<env, userQuery, commandCount, locals, exitCode, outcome, ghosts>>

\* A loop top that counts two turns for one request.
AskModelCountsTwice ==
    /\ pc = "loop"
    /\ commandCount < MaxTurns
    /\ commandCount' = commandCount + 2
    /\ logFile' =
           LogInfo(LogInfo(logFile, "Asking Claude for command suggestion...", <<>>),
                   "Including bytes of command history for context", <<>>)
    /\ requests' = Append(requests, userQuery)
    /\ pc' = "waiting"
    /\ UNCHANGED <<env, userQuery, locals, logOpen, exitCode, outcome, prompts, executed>>

\* main.go:277-297: the top of the loop up to the call of the model.  The log
\* file, opened for appending at the start, is taken to be readable, so that
\* GetRecentHistory returns a history and its length is logged.
AskModel ==
    /\ pc = "loop"
    /\ commandCount < MaxTurns
    /\ commandCount' = commandCount + 1
    /\ logFile' =
           LogInfo(LogInfo(logFile, "Asking Claude for command suggestion...", <<>>),
                   "Including bytes of command history for context", <<>>)
    /\ requests' = Append(requests, userQuery)
    /\ pc' = "waiting"
    /\ UNCHANGED <<env, userQuery, locals, logOpen, exitCode, outcome, prompts, executed>>

\* main.go:297, waitWithSpinner returns a response.
ModelResponds ==
    /\ pc = "waiting"
    /\ \E r \in Responses : modelResponse' = r
    /\ pc' = "parse"
    /\ UNCHANGED <<env, userQuery, commandCount, cmd, typed, answer, output, execErr,
                   logFile, logOpen, exitCode, outcome, ghosts>>

\* A failed request that is logged and then made again.
ModelFailsRetries ==
    /\ pc = "waiting"
    /\ logFile' = LogError(logFile, "failed to get command suggestion", <<>>)
    /\ requests' = Append(requests, userQuery)
    /\ UNCHANGED <<pc, env, userQuery, commandCount, locals, logOpen, exitCode, outcome,
                   prompts, executed>>

\* main.go:297-301, waitWithSpinner returns an error.
ModelFails ==
    /\ pc = "waiting"
    /\ logFile' = LogError(logFile, "failed to get command suggestion", <<>>)
    /\ Exit("fetch")
    /\ UNCHANGED <<env, userQuery, commandCount, locals, ghosts>>

\* A decode failure that falls back to the zero suggestion and goes on.
ParseFailsDefaults ==
    /\ pc = "parse"
    /\ ParseCommandResponse(modelResponse).err
    /\ logFile' = LogError(logFile, "failed to parse model response", <<>>)
    /\ cmd' = Command(FALSE, <<>>, <<>>, FALSE, FALSE)
    /\ pc' = "parsed"
    /\ UNCHANGED <<env, userQuery, commandCount, modelResponse, typed, answer, output,
                   execErr, logOpen, exitCode, outcome, ghosts>>

\* main.go:304-309
ParseFails ==
    /\ pc = "parse"
    /\ ParseCommandResponse(modelResponse).err
    /\ logFile' = LogError(logFile, "failed to parse model response", <<>>)
    /\ Exit("parse")
    /\ UNCHANGED <<env, userQuery, commandCount, locals, ghosts>>

\* main.go:304-316
ParseOk ==
    /\ pc = "parse"
    /\ ~ParseCommandResponse(modelResponse).err
    /\ cmd' = ParseCommandResponse(modelResponse).cmd
    /\ logFile' =
           LogInfo(LogInfo(LogInfo(LogInfo(LogInfo(logFile,
               "Suggested Command", cmd'.Command),
               "Reason", cmd'.Reason),
               "Safe", BoolText(cmd'.Safe)),
               "Is Final", BoolText(cmd'.IsFinal)),
               "Needs Output", BoolText(cmd'.NeedsOutput))
    /\ pc' = "parsed"
    /\ UNCHANGED <<env, userQuery, commandCount, modelResponse, typed, answer, output,
                   execErr, logOpen, exitCode, outcome, ghosts>>

\* An ask mode that shows the suggestion and then runs it all the same.
AskModeFallsThrough ==
    /\ pc = "parsed"
    /\ askModeOnly
    /\ pc' = "exec"
    /\ UNCHANGED <<env, userQuery, commandCount, locals, logFile, logOpen,
                   exitCode, outcome, ghosts>>

\* main.go:319-337: ask mode shows the suggestion and leaves the loop.
AskModeBreak ==
    /\ pc = "parsed"
    /\ askModeOnly
    /\ Return("ask")
    /\ UNCHANGED <<env, userQuery, commandCount, locals, logFile, ghosts>>

\* main.go:339-351, a suggestion marked safe goes on to execution.
GateSafe ==
    /\ pc = "parsed"
    /\ ~askModeOnly
    /\ cmd.Safe
    /\ pc' = "exec"
    /\ UNCHANGED <<env, userQuery, commandCount, locals, logFile, logOpen,
                   exitCode, outcome, ghosts>>

\* main.go:339-355, a suggestion not marked safe: the prompt is shown.
GatePrompt ==
    /\ pc = "parsed"
    /\ ~askModeOnly
    /\ ~cmd.Safe
    /\ prompts' = Append(prompts, commandCount)
    /\ pc' = "confirm"
    /\ UNCHANGED <<env, userQuery, commandCount, locals, logFile, logOpen,
                   exitCode, outcome, requests, executed>>

\* A gate that treats a declined command as a failure: os.Exit(1), after
\* the command was already logged as issued.
ConfirmCancelIsFailure ==
    /\ pc = "confirm"
    /\ typed' \in Answers
    /\ answer' = ToLower(typed')
    /\ IF Accepted(answer')
       THEN /\ pc' = "exec"
            /\ UNCHANGED <<logFile, logOpen, exitCode, outcome>>
       ELSE /\ logFile' = LogCommand(logFile, cmd.Command)
            /\ Exit("cancelled")
    /\ UNCHANGED <<env, userQuery, commandCount, modelResponse, cmd, output,
                   execErr, ghosts>>

\* main.go:357-365
Confirm ==
    /\ pc = "confirm"
    /\ typed' \in Answers
    /\ answer' = ToLower(typed')
    /\ IF Accepted(answer')
       THEN /\ pc' = "exec"
            /\ UNCHANGED <<logOpen, exitCode, outcome>>
       ELSE Return("cancelled")
    /\ UNCHANGED <<env, userQuery, commandCount, modelResponse, cmd, output,
                   execErr, logFile, ghosts>>

\* main.go:367-387 with shell.go:95-164
Execute ==
    /\ pc = "exec"
    /\ \E r \in StreamCommand(commandCount) :
         /\ executed' = Append(executed, [turn |-> commandCount, cmd |-> cmd,
                                          output |-> r.output, err |-> r.err])
         /\ output' = r.output
         /\ execErr' = r.err
         /\ logFile' =
                LET l1 == LogHandler(logFile, cmd.Command, <<>>)
                IN  IF r.err # "nil"
                    THEN LogError(l1, "command execution failed", <<Lit(r.err)>> \o r.output)
                    ELSE l1
    /\ pc' = "decide"
    /\ UNCHANGED <<env, userQuery, commandCount, modelResponse, cmd, typed, answer,
                   logOpen, exitCode, outcome, requests, prompts>>

\* main.go:389-393
DecideBreak ==
    /\ pc = "decide"
    /\ Terminates(cmd)
    /\ Return("completed")
    /\ UNCHANGED <<env, userQuery, commandCount, locals, logFile, ghosts>>

\* A loop that gives up when the command it ran reported an error.
DecideContinueStopsOnError ==
    /\ pc = "decide"
    /\ ~Terminates(cmd)
    /\ IF execErr # "nil"
       THEN /\ Exit("exec")
            /\ UNCHANGED userQuery
       ELSE /\ userQuery' = Fold(cmd, output, userQuery)
            /\ pc' = "loop"
            /\ UNCHANGED <<logOpen, exitCode, outcome>>
    /\ UNCHANGED <<env, commandCount, locals, logFile, ghosts>>

\* The variables declared in the loop body, as a new iteration finds them.
FreshLocals ==
    /\ modelResponse' = <<>>
    /\ cmd' = NilCommand
    /\ typed' = <<>>
    /\ answer' = <<>>
    /\ output' = <<>>
    /\ execErr' = "nil"

\* main.go:389-404: the query is folded and the iteration ends.
DecideContinue ==
    /\ pc = "decide"
    /\ ~Terminates(cmd)
    /\ userQuery' = Fold(cmd, output, userQuery)
    /\ FreshLocals
    /\ pc' = "loop"
    /\ UNCHANGED <<env, commandCount, logFile, logOpen, exitCode, outcome, ghosts>>

Next ==
    \/ StartupFails
    \/ StartupOk
    \/ AskModel
    \/ ModelResponds
    \/ ModelFails
    \/ ParseFails
    \/ ParseOk
    \/ AskModeBreak
    \/ GateSafe
    \/ GatePrompt
    \/ Confirm
    \/ Execute
    \/ DecideBreak
    \/ DecideContinue

Spec == Init /\ [][Next]_vars

TypeOK ==
    /\ pc \in {"start", "loop", "waiting", "parse", "parsed", "confirm", "exec",
               "decide", "done"}
    /\ askModeOnly \in BOOLEAN
    /\ commandCount \in 0..MaxTurns
    /\ exitCode \in {-1, 0, 1}
    /\ logOpen \in {"unopened", "open", "closed"}

\* ------------------------------------------------------------------ StreamCommand, step by step

\* Number of lines a subprocess writes to one of its streams.
MaxLines == 2

\* A line longer than a bufio.Scanner takes (bufio.MaxScanTokenSize), and a
\* last piece of text that does not end with "\n".
LongLine(stream, t, i) == [k |-> stream, v |-> "long", n |-> 10 * t + i]

Unterminated(stream, t, i) == [k |-> stream, v |-> "partial", n |-> 10 * t + i]

\* scanner.Text() + "\n": the text up to the end-of-line marker, and "\n".
TextNewline(tok) == [tok EXCEPT !.v = "line"]

\* What a subprocess can write to a stream: up to MaxLines lines, any of
\* them too long for the scanner, the last one perhaps without its "\n".
StreamTexts(stream, t) ==
    UNION {
      {[i \in 1..n |-> IF i \in long THEN LongLine(stream, t, i)
                       ELSE IF i = n /\ cut THEN Unterminated(stream, t, i)
                       ELSE Line(stream, t, i)] :
           long \in SUBSET (1..n), cut \in BOOLEAN} :
      n \in 0..MaxLines}

\* The variables of main that a call of StreamCommand does not touch.
caller ==
    <<pc, askModeOnly, userQuery, commandCount, modelResponse, cmd, typed, answer,
      logOpen, exitCode, outcome, requests, prompts, executed, logger, wait, client>>

\* The log of a first turn up to the call of StreamCommand (main.go:262-316).
LogBeforeExec(query, c) ==
    LogInfo(LogInfo(LogInfo(LogInfo(LogInfo(LogInfo(LogInfo(LogInfo(LogInfo(<<>>,
        "Using client", <<>>),
        "User Query", query),
        "Asking Claude for command suggestion...", <<>>),
        "Including bytes of command history for context", <<>>),
        "Suggested Command", c.Command),
        "Reason", c.Reason),
        "Safe", BoolText(c.Safe)),
        "Is Final", BoolText(c.IsFinal)),
        "Needs Output", BoolText(c.NeedsOutput))

\* main is at main.go:375 in its first turn, about to call sh.StreamCommand
\* with a suggestion marked safe; the command text is "ls" or empty.
ShellInit ==
    /\ pc = "exec"
    /\ askModeOnly = FALSE
    /\ userQuery = <<Word("goal")>>
    /\ commandCount = 1
    /\ modelResponse \in {<<Obj("true", c, "ls", "true", "false")>> : c \in {"ls", ""}}
    /\ cmd = ParseCommandResponse(modelResponse).cmd
    /\ typed = <<>>
    /\ answer = <<>>
    /\ output = <<>>
    /\ execErr = "nil"
    /\ logFile = LogBeforeExec(userQuery, cmd)
    /\ logOpen = "open"
    /\ exitCode = -1
    /\ outcome = "running"
    /\ requests = <<userQuery>>
    /\ prompts = <<>>
    /\ executed = <<>>
    /\ ShellIdle
    /\ WaitIdle
    /\ ClientIdle
    /\ LoggerIdle

\* shell.go:96-99: StreamCommand is entered and calls s.LogHandler(cmd, "").
Call ==
    /\ shPc = "idle"
    /\ pc = "exec"
    /\ logFile' = LogHandler(logFile, cmd.Command, <<>>)
    /\ shPc' = "start"
    /\ UNCHANGED <<caller, output, execErr, process, pending, dpc, line, offset,
                   handled, combinedOutput, done, logAtStart>>

\* shell.go:101-118, command.Start fails: return "", err.
StartFails ==
    /\ shPc = "start"
    /\ logAtStart' = logFile
    /\ output' = <<>>
    /\ execErr' = "failed to start command"
    /\ shPc' = "returned"
    /\ UNCHANGED <<caller, logFile, process, pending, dpc, line, offset, handled,
                   combinedOutput, done>>

\* shell.go:101-146, command.Start succeeds and the two drains are launched.
Start ==
    /\ shPc = "start"
    /\ \E so \in StreamTexts("stdout", commandCount),
          se \in StreamTexts("stderr", commandCount), st \in {0, 1} :
         /\ process' = [state |-> "running", status |-> st, stdout |-> so, stderr |-> se]
         /\ pending' = [s \in Streams |-> IF s = "stdout" THEN so ELSE se]
    /\ dpc' = [s \in Streams |-> "scan"]
    /\ logAtStart' = logFile
    /\ shPc' = "recv1"
    /\ UNCHANGED <<caller, output, execErr, logFile, line, offset, handled,
                   combinedOutput, done>>

\* The subprocess ends once it has got rid of what it writes; a last piece
\* without "\n" sits in the scanner until the end of the stream.
ProcessExits ==
    /\ process.state = "running"
    /\ \A s \in Streams :
         \/ pending[s] = <<>>
         \/ Len(pending[s]) = 1 /\ pending[s][1].v = "partial"
    /\ process' = [process EXCEPT !.state = "exited"]
    /\ UNCHANGED <<caller, output, execErr, logFile, shPc, pending, dpc, line, offset,
                   handled, combinedOutput, done, logAtStart>>

\* A stream nobody reads any more: what the subprocess writes next stays in
\* the pipe, as long as the pipe has room for it.
PipeAbsorbs(s) ==
    /\ process.state = "running"
    /\ dpc[s] \in {"signal", "end"}
    /\ pending[s] # <<>>
    /\ pending' = [pending EXCEPT ![s] = Tail(@)]
    /\ UNCHANGED <<caller, output, execErr, logFile, shPc, process, dpc, line, offset,
                   handled, combinedOutput, done, logAtStart>>

\* shell.go:129-130, 140-141: scanner.Scan() and scanner.Text() + "\n".  Scan
\* blocks until a whole line or the end of the stream is there; it gives up
\* on a line that is too long, and hands out an unended last piece at the end
\* of the stream.
Scan(s) ==
    /\ dpc[s] = "scan"
    /\ IF pending[s] = <<>>
       THEN /\ process.state = "exited"
            /\ dpc' = [dpc EXCEPT ![s] = "signal"]
            /\ UNCHANGED <<pending, line>>
       ELSE LET tok == Head(pending[s])
            IN  /\ tok.v = "partial" => process.state = "exited"
                /\ pending' = [pending EXCEPT ![s] = Tail(@)]
                /\ IF tok.v = "long"
                   THEN /\ dpc' = [dpc EXCEPT ![s] = "signal"]
                        /\ UNCHANGED line
                   ELSE /\ dpc' = [dpc EXCEPT ![s] = "handler"]
                        /\ line' = [line EXCEPT ![s] = <<TextNewline(tok)>>]
    /\ UNCHANGED <<caller, output, execErr, logFile, shPc, process, offset, handled,
                   combinedOutput, done, logAtStart>>

\* shell.go:131, 142: outputHandler(line) is entered ...
HandlerEnter(s) ==
    /\ dpc[s] = "handler"
    /\ handled' = handled \o line[s]
    /\ dpc' = [dpc EXCEPT ![s] = "in handler"]
    /\ UNCHANGED <<caller, output, execErr, logFile, shPc, process, pending, line, offset,
                   combinedOutput, done, logAtStart>>

\* ... and returns; main's handler prints the line and does nothing else.
HandlerReturn(s) ==
    /\ dpc[s] = "in handler"
    /\ dpc' = [dpc EXCEPT ![s] = "grow"]
    /\ UNCHANGED <<caller, output, execErr, logFile, shPc, process, pending, line, offset,
                   handled, combinedOutput, done, logAtStart>>

\* shell.go:132, 143: combinedOutput.WriteString(line), first half: the
\* buffer finds the place for the new bytes at its present end.
WriteGrow(s) ==
    /\ dpc[s] = "grow"
    /\ offset' = [offset EXCEPT ![s] = Len(combinedOutput)]
    /\ dpc' = [dpc EXCEPT ![s] = "copy"]
    /\ UNCHANGED <<caller, output, execErr, logFile, shPc, process, pending, line,
                   handled, combinedOutput, done, logAtStart>>

\* Second half: the bytes are copied to the place found, which is the end of
\* the buffer from then on.  Nothing keeps the other drain from writing in
\* between the two halves: it may have moved the end, forward or, with a stale
\* place of its own, backward.  A place beyond the end makes the slice
\* expression of the copy panic, and a panic in a goroutine ends the program.
WriteCopy(s) ==
    /\ dpc[s] = "copy"
    /\ IF offset[s] <= Len(combinedOutput)
       THEN /\ combinedOutput' = SubSeq(combinedOutput, 1, offset[s]) \o line[s]
            /\ dpc' = [dpc EXCEPT ![s] = "scan"]
            /\ UNCHANGED shPc
       ELSE /\ shPc' = "panicked"
            /\ dpc' = [t \in Streams |-> "none"]
            /\ UNCHANGED combinedOutput
    /\ UNCHANGED <<caller, output, execErr, logFile, process, pending, line, offset,
                   handled, done, logAtStart>>

\* shell.go:134, 145: done <- struct{}{}; the channel has room for both.
Signal(s) ==
    /\ dpc[s] = "signal"
    /\ done' = done + 1
    /\ dpc' = [dpc EXCEPT ![s] = "end"]
    /\ UNCHANGED <<caller, output, execErr, logFile, shPc, process, pending, line, offset,
                   handled, combinedOutput, logAtStart>>

\* A caller that waits for one drain only.
ReceiveDoneOnce ==
    /\ shPc = "recv1"
    /\ done > 0
    /\ done' = done - 1
    /\ shPc' = "wait"
    /\ UNCHANGED <<caller, output, execErr, logFile, process, pending, dpc, line, offset,
                   handled, combinedOutput, logAtStart>>

\* A caller that looks for the signals without blocking on them.
ReceiveDoneIfAny ==
    /\ shPc \in {"recv1", "recv2"}
    /\ done' = IF done > 0 THEN done - 1 ELSE done
    /\ shPc' = IF shPc = "recv1" THEN "recv2" ELSE "wait"
    /\ UNCHANGED <<caller, output, execErr, logFile, process, pending, dpc, line, offset,
                   handled, combinedOutput, logAtStart>>

\* shell.go:149-150: <-done, twice.
ReceiveDone ==
    /\ shPc \in {"recv1", "recv2"}
    /\ done > 0
    /\ done' = done - 1
    /\ shPc' = IF shPc = "recv1" THEN "recv2" ELSE "wait"
    /\ UNCHANGED <<caller, output, execErr, logFile, process, pending, dpc, line, offset,
                   handled, combinedOutput, logAtStart>>

\* shell.go:153: command.Wait() returns once the subprocess has exited.
Wait ==
    /\ shPc = "wait"
    /\ process.state = "exited"
    /\ shPc' = "read"
    /\ UNCHANGED <<caller, output, execErr, logFile, process, pending, dpc, line, offset,
                   handled, combinedOutput, done, logAtStart>>

\* shell.go:156-163: the buffer is read and handed back with the error.
ReturnOutput ==
    /\ shPc = "read"
    /\ output' = combinedOutput
    /\ execErr' = IF process.status = 0 THEN "nil" ELSE "command failed"
    /\ shPc' = "returned"
    /\ UNCHANGED <<caller, logFile, process, pending, dpc, line, offset, handled,
                   combinedOutput, done, logAtStart>>

ShellNext ==
    \/ Call
    \/ StartFails
    \/ Start
    \/ ProcessExits
    \/ \E s \in Streams : PipeAbsorbs(s)
    \/ \E s \in Streams : Scan(s)
    \/ \E s \in Streams : HandlerEnter(s)
    \/ \E s \in Streams : HandlerReturn(s)
    \/ \E s \in Streams : WriteGrow(s)
    \/ \E s \in Streams : WriteCopy(s)
    \/ \E s \in Streams : Signal(s)
    \/ ReceiveDone
    \/ Wait
    \/ ReturnOutput

ShellSpec == ShellInit /\ [][ShellNext]_vars

\* Every goroutine of StreamCommand that can take a step is scheduled, and a
\* subprocess that has got rid of its output exits.  Whether the pipe has
\* room for what nobody reads is not the program's to decide.
ShellFairSpec ==
    /\ ShellSpec
    /\ WF_vars(Call)
    /\ WF_vars(StartFails \/ Start)
    /\ WF_vars(ProcessExits)
    /\ \A s \in Streams :
         /\ WF_vars(Scan(s))
         /\ WF_vars(HandlerEnter(s))
         /\ WF_vars(HandlerReturn(s))
         /\ WF_vars(WriteGrow(s))
         /\ WF_vars(WriteCopy(s))
         /\ WF_vars(Signal(s))
    /\ WF_vars(ReceiveDone)
    /\ WF_vars(Wait)
    /\ WF_vars(ReturnOutput)

ShellTypeOK ==
    /\ shPc \in {"idle", "start", "recv1", "recv2", "wait", "read", "returned", "panicked"}
    /\ \A s \in Streams :
         dpc[s] \in {"none", "scan", "handler", "in handler", "grow", "copy", "signal", "end"}
    /\ done \in 0..2
    /\ process.state \in {"none", "running", "exited"}

\* ------------------------------------------------------------------ ExecuteCommand, step by step

\* A user of the Shell that main builds (main.go:234-241) calls
\* sh.ExecuteCommand where main calls sh.StreamCommand.
ExecInit == ShellInit

\* shell.go:28-32: ExecuteCommand is entered and calls s.LogHandler(cmd, "").
ExecCall ==
    /\ shPc = "idle"
    /\ pc = "exec"
    /\ logFile' = LogHandler(logFile, cmd.Command, <<>>)
    /\ shPc' = "start"
    /\ UNCHANGED <<caller, output, execErr, process, pending, dpc, line, offset,
                   handled, combinedOutput, done, logAtStart>>

\* shell.go:35-51, command.Start fails: return "", err.
ExecStartFails ==
    /\ shPc = "start"
    /\ logAtStart' = logFile
    /\ output' = <<>>
    /\ execErr' = "failed to start command"
    /\ shPc' = "returned"
    /\ UNCHANGED <<caller, logFile, process, pending, dpc, line, offset, handled,
                   combinedOutput, done>>

\* shell.go:35-78, command.Start succeeds and the two readers are launched;
\* the caller goes straight on to command.Wait.  pending is what the
\* subprocess has written or will write and no reader has taken yet.
ExecStart ==
    /\ shPc = "start"
    /\ \E so \in StreamTexts("stdout", commandCount),
          se \in StreamTexts("stderr", commandCount), st \in {0, 1} :
         /\ process' = [state |-> "running", status |-> st, stdout |-> so, stderr |-> se]
         /\ pending' = [s \in Streams |-> IF s = "stdout" THEN so ELSE se]
    /\ dpc' = [s \in Streams |-> "scan"]
    /\ logAtStart' = logFile
    /\ shPc' = "wait"
    /\ UNCHANGED <<caller, output, execErr, logFile, line, offset, handled,
                   combinedOutput, done>>

\* The subprocess has written all it writes, into the pipes, and exits; what
\* no reader has taken yet stays in the pipes.
ExecProcessExits ==
    /\ process.state = "running"
    /\ process' = [process EXCEPT !.state = "exited"]
    /\ UNCHANGED <<caller, output, execErr, logFile, shPc, pending, dpc, line, offset,
                   handled, combinedOutput, done, logAtStart>>

\* shell.go:59-60, 71-72: scanner.Scan() and scanner.Text().  Scan ends the
\* loop at the end of the stream, on a line that is too long, and on the
\* error of a read from a pipe command.Wait has closed; of what was written
\* before that, it still hands out the lines it holds in its own buffer.
ExecScan(s) ==
    /\ dpc[s] = "scan"
    /\ \/ /\ process.state = "waited" \/ (process.state = "exited" /\ pending[s] = <<>>)
          /\ dpc' = [dpc EXCEPT ![s] = "end"]
          /\ UNCHANGED <<pending, line>>
       \/ /\ pending[s] # <<>>
          /\ Head(pending[s]).v = "partial" => process.state \in {"exited", "waited"}
          /\ pending' = [pending EXCEPT ![s] = Tail(@)]
          /\ IF Head(pending[s]).v = "long"
             THEN /\ dpc' = [dpc EXCEPT ![s] = "end"]
                  /\ UNCHANGED line
             ELSE /\ dpc' = [dpc EXCEPT ![s] = "handler"]
                  /\ line' = [line EXCEPT ![s] = <<TextNewline(Head(pending[s]))>>]
    /\ UNCHANGED <<caller, output, execErr, logFile, shPc, process, offset, handled,
                   combinedOutput, done, logAtStart>>

\* shell.go:61-63, 73-75: s.LogHandler("", line+"\n").
ExecLog(s) ==
    /\ dpc[s] = "handler"
    /\ logFile' = LogHandler(logFile, <<>>, line[s])
    /\ handled' = handled \o line[s]
    /\ dpc' = [dpc EXCEPT ![s] = "grow"]
    /\ UNCHANGED <<caller, output, execErr, shPc, process, pending, line, offset,
                   combinedOutput, done, logAtStart>>

\* shell.go:81: command.Wait() returns once the subprocess has exited, and
\* closes the reading ends of the two pipes.
ExecWait ==
    /\ shPc = "wait"
    /\ process.state = "exited"
    /\ process' = [process EXCEPT !.state = "waited"]
    /\ shPc' = "read"
    /\ UNCHANGED <<caller, output, execErr, logFile, pending, dpc, line, offset,
                   handled, combinedOutput, done, logAtStart>>

\* shell.go:84-91: the buffer is read and handed back with the error.
ExecReturn ==
    /\ shPc = "read"
    /\ output' = combinedOutput
    /\ execErr' = IF process.status = 0 THEN "nil" ELSE "command failed"
    /\ shPc' = "returned"
    /\ UNCHANGED <<caller, logFile, process, pending, dpc, line, offset, handled,
                   combinedOutput, done, logAtStart>>

\* combinedOutput.WriteString(line + "\n"), shell.go:64 and 76, is the write
\* of StreamCommand's drains, in its two halves.
ExecNext ==
    \/ ExecCall
    \/ ExecStartFails
    \/ ExecStart
    \/ ExecProcessExits
    \/ \E s \in Streams : ExecScan(s)
    \/ \E s \in Streams : ExecLog(s)
    \/ \E s \in Streams : WriteGrow(s)
    \/ \E s \in Streams : WriteCopy(s)
    \/ ExecWait
    \/ ExecReturn

ExecSpec == ExecInit /\ [][ExecNext]_vars

\* ------------------------------------------------------------------ Logger, call by call

\* Number of calls the goroutines make on the Logger.
MaxCalls == 3

\* logger.go:23 and 25
maxHistoryBytes == 5120

maxHistoryLines == 50

\* A run of bytes other than "\n" written by call e, and the byte "\n".  A
\* run counts as one byte of the file.
Bytes(e, what) == [e |-> e, c |-> what]

NL == [e |-> 0, c |-> "\n"]

AppendNames == {"LogCommand", "LogOutput", "LogStreamOutput", "LogInfo", "LogError"}

\* The text each append method formats for the file; the argument of call e
\* is a text of its own, for LogOutput and LogStreamOutput one line of output.
EntryText(name, e) ==
    CASE name = "LogCommand" -> <<NL, Bytes(e, "[ts] Command: "), Bytes(e, "cmd"), NL>>
      [] name = "LogInfo" -> <<Bytes(e, "[ts] Info: "), Bytes(e, "message"), NL>>
      [] name = "LogError" -> <<Bytes(e, "[ts] Error: "), Bytes(e, "err"), NL>>
      [] OTHER -> <<Bytes(e, "out"), Bytes(e, "put"), NL>>

\* What an earlier run of the program left in the file.
EarlierText == <<Bytes(0, "[ts] Info: "), Bytes(0, "message"), NL>>

Min(a, b) == IF a < b THEN a ELSE b

\* strings.Index(content, "\n") as a position from 1; 0 stands for -1.
IndexNewline(content) ==
    IF \E i \in 1..Len(content) : content[i] = NL
    THEN CHOOSE i \in 1..Len(content) :
             /\ content[i] = NL
             /\ \A j \in 1..(i - 1) : content[j] # NL
    ELSE 0

\* strings.Split(content, "\n")
RECURSIVE Split(_)
Split(content) ==
    LET i == IndexNewline(content)
    IN  IF i = 0
        THEN <<content>>
        ELSE <<SubSeq(content, 1, i - 1)>> \o Split(SubSeq(content, i + 1, Len(content)))

\* A join that ends every line with "\n".
RECURSIVE JoinEndsEachLine(_)
JoinEndsEachLine(lines) ==
    IF lines = <<>> THEN <<>> ELSE Head(lines) \o <<NL>> \o JoinEndsEachLine(Tail(lines))

\* strings.Join(lines, "\n")
RECURSIVE Join(_)
Join(lines) ==
    IF lines = <<>> THEN <<>>
    ELSE IF Len(lines) = 1 THEN Head(lines)
    ELSE Head(lines) \o <<NL>> \o Join(Tail(lines))

\* logger.go:158-169
ReadSize(fileSize) == Min(maxHistoryBytes, fileSize)

StartPos(fileSize) ==
    IF fileSize - ReadSize(fileSize) < 0 THEN 0 ELSE fileSize - ReadSize(fileSize)

\* logger.go:170-183: file.Seek(startPos, 0) and file.Read(buffer), the bytes
\* of the file from startPos on, readSize of them at most.
FileRead(file, startPos, readSize) ==
    SubSeq(file, startPos + 1, Min(startPos + readSize, Len(file)))

\* The error of that file.Read: none for a buffer of length zero, which is
\* not read at all, and io.EOF when the file holds nothing from startPos on.
ReadErr(file, startPos, readSize) ==
    IF readSize = 0 THEN "nil"
    ELSE IF startPos >= Len(file) THEN "EOF"
    ELSE "nil"

\* logger.go:185-199
History(buffer, startPos) ==
    LET first == IndexNewline(buffer)
        content == IF startPos > 0 /\ first > 0
                   THEN SubSeq(buffer, first + 1, Len(buffer))
                   ELSE buffer
        lines == Split(content)
        kept == IF Len(lines) > maxHistoryLines
                THEN SubSeq(lines, Len(lines) - maxHistoryLines + 1, Len(lines))
                ELSE lines
    IN  Join(kept)

\* The variables no method of the Logger touches.
outside ==
    <<pc, askModeOnly, userQuery, commandCount, modelResponse, cmd, typed, answer,
      output, execErr, logFile, logOpen, exitCode, outcome, requests, prompts, executed,
      shell, wait, client>>

\* logger.New has returned (logger.go:39-72): the file is open for appending,
\* empty if it was just created, and no goroutine is in a method.
LoggerInit ==
    /\ pc = "start"
    /\ askModeOnly = FALSE
    /\ userQuery = <<Word("goal")>>
    /\ commandCount = 0
    /\ modelResponse = <<>>
    /\ cmd = NilCommand
    /\ typed = <<>>
    /\ answer = <<>>
    /\ output = <<>>
    /\ execErr = "nil"
    /\ logFile = <<>>
    /\ logOpen = "open"
    /\ exitCode = -1
    /\ outcome = "running"
    /\ requests = <<>>
    /\ prompts = <<>>
    /\ executed = <<>>
    /\ ShellIdle
    /\ WaitIdle
    /\ ClientIdle
    /\ mutex = 0
    /\ disk \in {<<>>, EarlierText}
    /\ tpc = [t \in Threads |-> "idle"]
    /\ op = [t \in Threads |-> NoCall]
    /\ calls = 0
    /\ order = IF disk = <<>> THEN <<>> ELSE <<disk>>
    /\ completed = Len(order)
    /\ tails = {}

\* A goroutine calls one of the append methods (logger.go:75, 89, 100, 111, 125).
CallAppend(t) ==
    /\ tpc[t] = "idle"
    /\ calls < MaxCalls
    /\ \E name \in AppendNames :
         op' = [op EXCEPT ![t] = [NoCall EXCEPT !.name = name,
                                                !.text = EntryText(name, calls + 1)]]
    /\ calls' = calls + 1
    /\ tpc' = [tpc EXCEPT ![t] = "lock"]
    /\ UNCHANGED <<outside, mutex, disk, order, completed, tails>>

\* A goroutine calls GetRecentHistory (logger.go:140).
CallGetRecentHistory(t) ==
    /\ tpc[t] = "idle"
    /\ calls < MaxCalls
    /\ op' = [op EXCEPT ![t] = [NoCall EXCEPT !.name = "GetRecentHistory",
                                              !.invoked = completed]]
    /\ calls' = calls + 1
    /\ tpc' = [tpc EXCEPT ![t] = "lock"]
    /\ UNCHANGED <<outside, mutex, disk, order, completed, tails>>

\* A LogStreamOutput that does not take the mutex.
LockExceptStreamOutput(t) ==
    /\ tpc[t] = "lock"
    /\ IF op[t].name = "LogStreamOutput"
       THEN UNCHANGED mutex
       ELSE mutex = 0 /\ mutex' = t
    /\ order' = IF op[t].name \in AppendNames THEN Append(order, op[t].text) ELSE order
    /\ tpc' = [tpc EXCEPT ![t] = "locked"]
    /\ UNCHANGED <<outside, disk, op, calls, completed, tails>>

\* A GetRecentHistory that does not take the mutex.
LockExceptGetRecentHistory(t) ==
    /\ tpc[t] = "lock"
    /\ IF op[t].name = "GetRecentHistory"
       THEN UNCHANGED mutex
       ELSE mutex = 0 /\ mutex' = t
    /\ order' = IF op[t].name \in AppendNames THEN Append(order, op[t].text) ELSE order
    /\ tpc' = [tpc EXCEPT ![t] = "locked"]
    /\ UNCHANGED <<outside, disk, op, calls, completed, tails>>

\* l.mutex.Lock(), the first statement of every method (logger.go:76, 90, 101,
\* 112, 126, 142).
Lock(t) ==
    /\ tpc[t] = "lock"
    /\ mutex = 0
    /\ mutex' = t
    /\ order' = IF op[t].name \in AppendNames THEN Append(order, op[t].text) ELSE order
    /\ tpc' = [tpc EXCEPT ![t] = "locked"]
    /\ UNCHANGED <<outside, disk, op, calls, completed, tails>>

\* A writer that keeps the bytes in a buffer of its own.
WriteBuffered(t) ==
    /\ tpc[t] = "locked"
    /\ op[t].name \in AppendNames
    /\ op' = [op EXCEPT ![t].n = Len(op[t].text)]
    /\ tpc' = [tpc EXCEPT ![t] = "unlock"]
    /\ UNCHANGED <<outside, mutex, disk, calls, order, completed, tails>>

\* fmt.Fprintf(l.fileWriter, ...) and fmt.Fprint(l.fileWriter, ...), logger.go:82,
\* 95, 106, 118, 132: the text goes to the file, opened with O_APPEND, in one
\* Write; os.File.Write hands it to the system piece by piece until all of it
\* is written.
Write(t) ==
    /\ tpc[t] = "locked"
    /\ op[t].name \in AppendNames
    /\ \E k \in 1..(Len(op[t].text) - op[t].n) :
         /\ disk' = disk \o SubSeq(op[t].text, op[t].n + 1, op[t].n + k)
         /\ op' = [op EXCEPT ![t].n = @ + k]
         /\ tpc' = [tpc EXCEPT ![t] = IF op[t].n + k = Len(op[t].text)
                                      THEN "unlock" ELSE "locked"]
    /\ UNCHANGED <<outside, mutex, calls, order, completed, tails>>

\* logger.go:146-159: os.Open(l.logPath), file.Stat(), fileInfo.Size().
Stat(t) ==
    /\ tpc[t] = "locked"
    /\ op[t].name = "GetRecentHistory"
    /\ op' = [op EXCEPT ![t].fileSize = Len(disk)]
    /\ tpc' = [tpc EXCEPT ![t] = "read"]
    /\ UNCHANGED <<outside, mutex, disk, calls, order, completed, tails>>

\* logger.go:160-199: the last bytes of the file are read and cut to lines.
ReadHistory(t) ==
    /\ tpc[t] = "read"
    /\ LET startPos == StartPos(op[t].fileSize)
           readSize == ReadSize(op[t].fileSize)
           buffer == FileRead(disk, startPos, readSize)
       IN  IF ReadErr(disk, startPos, readSize) \notin {"nil", "EOF"}
           THEN op' = [op EXCEPT ![t].err = "failed to read log file"]
           ELSE op' = [op EXCEPT ![t].history = History(buffer, startPos)]
    /\ tpc' = [tpc EXCEPT ![t] = "unlock"]
    /\ UNCHANGED <<outside, mutex, disk, calls, order, completed, tails>>

\* The deferred l.mutex.Unlock(), and the return.  Unlock frees the mutex
\* whoever holds it, and is a fatal error on a mutex that is free.
Unlock(t) ==
    /\ tpc[t] = "unlock"
    /\ mutex # 0
    /\ mutex' = 0
    /\ IF op[t].name = "GetRecentHistory"
       THEN /\ tails' = tails \cup {[invoked |-> op[t].invoked, fileSize |-> op[t].fileSize,
                                     history |-> op[t].history, err |-> op[t].err]}
            /\ UNCHANGED completed
       ELSE /\ completed' = completed + 1
            /\ UNCHANGED tails
    /\ op' = [op EXCEPT ![t] = NoCall]
    /\ tpc' = [tpc EXCEPT ![t] = "idle"]
    /\ UNCHANGED <<outside, disk, calls, order>>

LoggerNext ==
    \E t \in Threads :
        \/ CallAppend(t)
        \/ CallGetRecentHistory(t)
        \/ Lock(t)
        \/ Write(t)
        \/ Stat(t)
        \/ ReadHistory(t)
        \/ Unlock(t)

LoggerSpec == LoggerInit /\ [][LoggerNext]_vars

LoggerTypeOK ==
    /\ mutex \in {0} \cup Threads
    /\ \A t \in Threads : tpc[t] \in {"idle", "lock", "locked", "read", "unlock"}
    /\ calls \in 0..MaxCalls
    /\ completed \in 0..Len(order)

\* ------------------------------------------------------------------ GetRecentHistory on long logs

\* Number of lines of equal width in the log GetRecentHistory is given.
MaxFileLines == 60

\* w bytes other than "\n", those of line i of the log.
LineBytes(i, w) == [j \in 1..w |-> Bytes(i, "x")]

\* n lines of w bytes, each ended by "\n".
RECURSIVE LogLines(_, _)
LogLines(n, w) ==
    IF n = 0 THEN <<>> ELSE LogLines(n - 1, w) \o LineBytes(n, w) \o <<NL>>

\* A log file: n lines of w bytes, then a piece of last bytes which the
\* "\n" of its entry follows or, written by LogOutput or LogStreamOutput
\* (logger.go:95, 106), does not.
LogText(n, w, last, ended) ==
    LogLines(n, w) \o LineBytes(n + 1, last) \o (IF ended THEN <<NL>> ELSE <<>>)

LineWidths == {1, 100}

\* The last piece is absent, short, or longer than the bytes GetRecentHistory reads.
LastWidths == {0, 1, maxHistoryBytes + 1}

LogTexts ==
    {LogText(n, w, last, ended) :
        n \in 0..MaxFileLines, w \in LineWidths, last \in LastWidths, ended \in BOOLEAN}

\* logger.New has returned on a log file of any of these contents, which
\* earlier runs and earlier appends have left (logger.go:55-59, O_APPEND).
TailInit ==
    /\ pc = "start"
    /\ askModeOnly = FALSE
    /\ userQuery = <<Word("goal")>>
    /\ commandCount = 0
    /\ modelResponse = <<>>
    /\ cmd = NilCommand
    /\ typed = <<>>
    /\ answer = <<>>
    /\ output = <<>>
    /\ execErr = "nil"
    /\ logFile = <<>>
    /\ logOpen = "open"
    /\ exitCode = -1
    /\ outcome = "running"
    /\ requests = <<>>
    /\ prompts = <<>>
    /\ executed = <<>>
    /\ ShellIdle
    /\ WaitIdle
    /\ ClientIdle
    /\ mutex = 0
    /\ disk \in LogTexts
    /\ tpc = [t \in Threads |-> "idle"]
    /\ op = [t \in Threads |-> NoCall]
    /\ calls = 0
    /\ order = IF disk = <<>> THEN <<>> ELSE <<disk>>
    /\ completed = Len(order)
    /\ tails = {}

\* One goroutine calls GetRecentHistory, as main does once a turn (main.go:256).
TailNext ==
    \/ CallGetRecentHistory(1)
    \/ Lock(1)
    \/ Stat(1)
    \/ ReadHistory(1)
    \/ Unlock(1)

TailSpec == TailInit /\ [][TailNext]_vars

\* ------------------------------------------------------------------ Logger, from New to Close

\* The variables neither New, Close nor any other method of the Logger touches.
elsewhere ==
    <<pc, askModeOnly, userQuery, commandCount, modelResponse, cmd, typed, answer,
      output, execErr, logFile, exitCode, outcome, requests, prompts, executed, shell,
      wait, client>>

\* The program has started and logger.New has not been called (main.go:214):
\* action.log is absent, which the empty text stands for, or holds what an
\* earlier run left.
FileInit ==
    /\ pc = "start"
    /\ askModeOnly = FALSE
    /\ userQuery = <<Word("goal")>>
    /\ commandCount = 0
    /\ modelResponse = <<>>
    /\ cmd = NilCommand
    /\ typed = <<>>
    /\ answer = <<>>
    /\ output = <<>>
    /\ execErr = "nil"
    /\ logFile = <<>>
    /\ logOpen = "unopened"
    /\ exitCode = -1
    /\ outcome = "running"
    /\ requests = <<>>
    /\ prompts = <<>>
    /\ executed = <<>>
    /\ ShellIdle
    /\ WaitIdle
    /\ ClientIdle
    /\ mutex = 0
    /\ disk \in {<<>>, EarlierText}
    /\ tpc = [t \in Threads |-> "idle"]
    /\ op = [t \in Threads |-> NoCall]
    /\ calls = 0
    /\ order = IF disk = <<>> THEN <<>> ELSE <<disk>>
    /\ completed = Len(order)
    /\ tails = {}

\* An open that empties the file, as with os.O_TRUNC.
NewTruncates ==
    /\ logOpen = "unopened"
    /\ logOpen' = "open"
    /\ disk' = <<>>
    /\ UNCHANGED <<elsewhere, mutex, tpc, op, calls, order, completed, tails>>

\* logger.New (logger.go:39-72): os.OpenFile(logPath,
\* os.O_APPEND|os.O_CREATE|os.O_WRONLY, 0644) creates the file if it is absent
\* and leaves what it holds.
New ==
    /\ logOpen = "unopened"
    /\ logOpen' = "open"
    /\ UNCHANGED <<elsewhere, mutex, disk, tpc, op, calls, order, completed, tails>>

\* Logger.Close (logger.go:203-210), called by a goroutine that is in no
\* other method: the mutex is taken, the file closed and the mutex given back.
\* Closing a file that is closed returns an error and changes nothing.
Close(t) ==
    /\ logOpen \in {"open", "closed"}
    /\ tpc[t] = "idle"
    /\ mutex = 0
    /\ calls < MaxCalls
    /\ calls' = calls + 1
    /\ logOpen' = "closed"
    /\ UNCHANGED <<elsewhere, mutex, disk, tpc, op, order, completed, tails>>

\* fmt.Fprintf(l.fileWriter, ...) and fmt.Fprint(l.fileWriter, ...), logger.go:82,
\* 95, 106, 118, 132, when the Write fails: at once on a file that is closed,
\* or after any part of the text on a file the system cannot write further
\* (no space, an input/output error).  The error Fprintf returns is dropped
\* and the method goes on to its return, which carries no value.
WriteFails(t) ==
    /\ tpc[t] = "locked"
    /\ op[t].name \in AppendNames
    /\ \E k \in 0..(Len(op[t].text) - op[t].n - 1) :
         /\ logOpen = "closed" => k = 0
         /\ disk' = disk \o SubSeq(op[t].text, op[t].n + 1, op[t].n + k)
         /\ op' = [op EXCEPT ![t].n = @ + k]
    /\ tpc' = [tpc EXCEPT ![t] = "unlock"]
    /\ UNCHANGED <<outside, mutex, calls, order, completed, tails>>

\* The main goroutine opens the Logger, calls its methods one after the
\* other, and closes it.
FileNext ==
    \/ New
    \/ logOpen # "unopened" /\ CallAppend(1)
    \/ logOpen # "unopened" /\ CallGetRecentHistory(1)
    \/ Lock(1)
    \/ logOpen = "open" /\ Write(1)
    \/ WriteFails(1)
    \/ Stat(1)
    \/ ReadHistory(1)
    \/ Unlock(1)
    \/ Close(1)

FileSpec == FileInit /\ [][FileNext]_vars

\* ------------------------------------------------------------------ waitWithSpinner, step by step

\* The variables waitWithSpinner and its goroutines do not touch.
around ==
    <<pc, askModeOnly, userQuery, commandCount, locals, logFile, logOpen, exitCode,
      outcome, ghosts, shell, logger, client>>

\* The log of a first turn up to the call of waitWithSpinner (main.go:262-294).
LogBeforeWait(query) ==
    LogInfo(LogInfo(LogInfo(LogInfo(<<>>,
        "Using client", <<>>),
        "User Query", query),
        "Asking Claude for command suggestion...", <<>>),
        "Including bytes of command history for context", <<>>)

\* main is at main.go:297 in its first turn and has called waitWithSpinner,
\* which has started its two goroutines and reached its select: the one is
\* inside client.GetCommandSuggestion, the other inside p.Run.
WaitInit ==
    /\ pc = "waiting"
    /\ askModeOnly = FALSE
    /\ userQuery = <<Word("goal")>>
    /\ commandCount = 1
    /\ modelResponse = <<>>
    /\ cmd = NilCommand
    /\ typed = <<>>
    /\ answer = <<>>
    /\ output = <<>>
    /\ execErr = "nil"
    /\ logFile = LogBeforeWait(userQuery)
    /\ logOpen = "open"
    /\ exitCode = -1
    /\ outcome = "running"
    /\ requests = <<userQuery>>
    /\ prompts = <<>>
    /\ executed = <<>>
    /\ ShellIdle
    /\ LoggerIdle
    /\ backend \in {"aws", "anthropic"}
    /\ apiPc = "calling"
    /\ apiErr = "nil"
    /\ progPc = "running"
    /\ waitPc = "select"
    /\ result = ""
    /\ resultErr = "nil"
    /\ doneClosed = FALSE
    /\ ready = FALSE
    /\ ClientIdle

\* client.GetCommandSuggestion returns a response (main.go:113); the goroutine
\* goes on to send it on responseChan.
CollaboratorResponds ==
    /\ apiPc = "calling"
    /\ apiPc' = "sendResponse"
    /\ UNCHANGED <<around, backend, apiErr, progPc,
                   waitPc, result, resultErr, doneClosed, ready>>

\* client.GetCommandSuggestion returns an error the collaborator or the
\* transport gave (aws/client.go:260-262, anthropic/client.go:265-267); the
\* goroutine goes on to send it on errChan.
CollaboratorFails ==
    /\ apiPc = "calling"
    /\ apiPc' = "sendErr"
    /\ apiErr' = "failed to invoke model"
    /\ UNCHANGED <<around, backend, progPc,
                   waitPc, result, resultErr, doneClosed, ready>>

\* The time limit of the request runs out.  ctx is context.Background()
\* (main.go:265), which has none; the Anthropic client sends with an
\* http.Client whose Timeout is 120 seconds (anthropic/client.go:244-246), the
\* Bedrock client calls InvokeModel with ctx alone (aws/client.go:255).
Deadline ==
    /\ apiPc = "calling"
    /\ backend = "anthropic"
    /\ apiPc' = "sendErr"
    /\ apiErr' = "deadline exceeded"
    /\ UNCHANGED <<around, backend, progPc,
                   waitPc, result, resultErr, doneClosed, ready>>

\* p.Run returns an error (main.go:127): the terminal cannot be opened, or
\* the program is killed; the goroutine goes on to send it on errChan.
SpinnerFails ==
    /\ progPc = "running"
    /\ progPc' = "sendErr"
    /\ UNCHANGED <<around, backend, apiPc, apiErr,
                   waitPc, result, resultErr, doneClosed, ready>>

\* p.Run returns without error: the user typed q or ctrl+c (main.go:47-51),
\* or p.Quit was called (main.go:154).  The goroutine ends.
SpinnerQuits ==
    /\ progPc = "running"
    /\ progPc' = "finished"
    /\ UNCHANGED <<around, backend, apiPc, apiErr,
                   waitPc, result, resultErr, doneClosed, ready>>

\* The select of main.go:136-151.  responseChan and errChan have no buffer: a
\* case is ready when its sender is at the send, and the receive lets the
\* sender go on.  Of several ready cases the runtime takes any.  In the case
\* of done the inner select takes a ready case or, none being ready, default.
Select ==
    /\ waitPc = "select"
    /\ ready' = (apiPc = "sendResponse")
    /\ \/ /\ apiPc = "sendResponse"
          /\ result' = "response"
          /\ apiPc' = "close"
          /\ UNCHANGED <<resultErr, progPc>>
       \/ /\ apiPc = "sendErr"
          /\ resultErr' = apiErr
          /\ apiPc' = "close"
          /\ UNCHANGED <<result, progPc>>
       \/ /\ progPc = "sendErr"
          /\ resultErr' = "spinner"
          /\ progPc' = "finished"
          /\ UNCHANGED <<result, apiPc>>
       \/ /\ doneClosed
          /\ \/ /\ apiPc = "sendResponse"
                /\ result' = "response"
                /\ apiPc' = "close"
                /\ UNCHANGED <<resultErr, progPc>>
             \/ /\ apiPc = "sendErr"
                /\ resultErr' = apiErr
                /\ apiPc' = "close"
                /\ UNCHANGED <<result, progPc>>
             \/ /\ progPc = "sendErr"
                /\ resultErr' = "spinner"
                /\ progPc' = "finished"
                /\ UNCHANGED <<result, apiPc>>
             \/ /\ apiPc \notin {"sendResponse", "sendErr"}
                /\ progPc # "sendErr"
                /\ resultErr' = "no response received"
                /\ UNCHANGED <<result, apiPc, progPc>>
    /\ waitPc' = "quit"
    /\ UNCHANGED <<around, backend, apiErr, doneClosed>>

\* A request goroutine that closes done before it has made the call.
CloseDoneBeforeCall ==
    /\ \/ apiPc = "calling" /\ ~doneClosed /\ UNCHANGED apiPc
       \/ apiPc = "close" /\ apiPc' = "finished"
    /\ doneClosed' = TRUE
    /\ UNCHANGED <<around, backend, apiErr, progPc,
                   waitPc, result, resultErr, ready>>

\* close(done), main.go:119, after the send; the goroutine ends.
CloseDone ==
    /\ apiPc = "close"
    /\ doneClosed' = TRUE
    /\ apiPc' = "finished"
    /\ UNCHANGED <<around, backend, apiErr, progPc,
                   waitPc, result, resultErr, ready>>

\* main.go:153-163: p.Quit(), which asks the program to end, the escape codes
\* that reset the terminal, and "stty sane" run by a Shell of its own that
\* has no log handler.
Quit ==
    /\ waitPc = "quit"
    /\ waitPc' = "return"
    /\ UNCHANGED <<around, backend, apiPc, apiErr,
                   progPc, result, resultErr, doneClosed, ready>>

\* main.go:165-167 and 297-301: waitWithSpinner returns resultErr, main logs
\* it and exits.
ReturnError ==
    /\ waitPc = "return"
    /\ resultErr # "nil"
    /\ ModelFails

\* main.go:168 and 297: waitWithSpinner returns the response, the text the
\* collaborator gave.
ReturnResponse ==
    /\ waitPc = "return"
    /\ resultErr = "nil"
    /\ ModelResponds

WaitNext ==
    \/ CollaboratorResponds
    \/ CollaboratorFails
    \/ Deadline
    \/ SpinnerFails
    \/ SpinnerQuits
    \/ Select
    \/ CloseDone
    \/ Quit
    \/ ReturnError
    \/ ReturnResponse

WaitSpec == WaitInit /\ [][WaitNext]_vars

\* The goroutines of the program are scheduled and the timer of the HTTP
\* client fires: a step of the program that stays possible is taken.  When
\* the collaborator answers, and what the user and the terminal do to the
\* spinner, is not the program's to decide.
WaitFairSpec ==
    /\ WaitSpec
    /\ WF_vars(Deadline)
    /\ WF_vars(Select)
    /\ WF_vars(CloseDone)
    /\ WF_vars(Quit)
    /\ WF_vars(ReturnError)
    /\ WF_vars(ReturnResponse)

WaitTypeOK ==
    /\ backend \in {"aws", "anthropic"}
    /\ apiPc \in {"calling", "sendResponse", "sendErr", "close", "finished"}
    /\ apiErr \in {"nil", "failed to invoke model", "deadline exceeded"}
    /\ progPc \in {"running", "sendErr", "finished"}
    /\ waitPc \in {"select", "quit", "return"}
    /\ result \in {"", "response"}
    /\ resultErr \in {"nil", "failed to invoke model", "deadline exceeded", "spinner",
                      "no response received"}
    /\ doneClosed \in BOOLEAN
    /\ ready \in BOOLEAN

\* ------------------------------------------------------------------ getClient, run after run

\* Number of runs of the program in the same environment.
MaxRuns == 2

ConfigFiles == {"absent", "unwritable", "invalid", "no key", "key"}

\* loadClientConfig, anthropic/client.go:70-127: an absent file is written
\* with the defaults, an empty api_key, and those defaults are returned as
\* they are; a file that is there is read and parsed, and an empty api_key
\* is filled from ANTHROPIC_API_KEY.
loadClientConfig(file, apiKey) ==
    CASE file = "unwritable" -> [err |-> TRUE, key |-> "", file |-> file]
      [] file = "absent" -> [err |-> FALSE, key |-> "", file |-> "no key"]
      [] file = "invalid" -> [err |-> TRUE, key |-> "", file |-> file]
      [] file = "no key" -> [err |-> FALSE, key |-> apiKey, file |-> file]
      [] OTHER -> [err |-> FALSE, key |-> "configured", file |-> file]

\* NewAnthropicClient, anthropic/client.go:130-144: it fails when the
\* configuration cannot be loaded or holds no key.
NewAnthropicClient(file, apiKey) ==
    LET c == loadClientConfig(file, apiKey)
    IN  [err |-> c.err \/ c.key = "", file |-> c.file]

\* A Stat that finds no file.
StatFindsNothing(file) == FALSE

\* os.Stat(configPath) finds the file (main.go:190).
StatFinds(file) == file \in {"invalid", "no key", "key"}

\* What getClient returns and logs: the client, or none with the error of
\* the Bedrock client, and the place the log names for it ("from environment
\* variable", "from config file", main.go:179, 195, 208).
Selected(which, from) == [client |-> which, from |-> from]

\* The program is started: main is about to call getClient (main.go:258).
ClientInit ==
    /\ pc = "start"
    /\ askModeOnly = FALSE
    /\ userQuery = <<Word("goal")>>
    /\ commandCount = 0
    /\ modelResponse = <<>>
    /\ cmd = NilCommand
    /\ typed = <<>>
    /\ answer = <<>>
    /\ output = <<>>
    /\ execErr = "nil"
    /\ logFile = <<>>
    /\ logOpen = "open"
    /\ exitCode = -1
    /\ outcome = "running"
    /\ requests = <<>>
    /\ prompts = <<>>
    /\ executed = <<>>
    /\ ShellIdle
    /\ LoggerIdle
    /\ WaitIdle
    /\ apiKeyEnv \in {"", "key"}
    /\ configFile \in ConfigFiles
    /\ awsOk \in BOOLEAN
    /\ gcPc = "env"
    /\ selections = <<>>

\* The variables getClient does not touch.
beside ==
    <<pc, askModeOnly, userQuery, commandCount, locals, logFile, logOpen, exitCode,
      outcome, ghosts, shell, logger, wait>>

\* main.go:174-185: with ANTHROPIC_API_KEY set the Anthropic client is tried;
\* its error is logged and getClient goes on.
GetClientFromEnv ==
    /\ gcPc = "env"
    /\ IF apiKeyEnv = ""
       THEN /\ gcPc' = "stat"
            /\ UNCHANGED <<configFile, selections>>
       ELSE LET c == NewAnthropicClient(configFile, apiKeyEnv)
            IN  /\ configFile' = c.file
                /\ IF c.err
                   THEN gcPc' = "stat" /\ UNCHANGED selections
                   ELSE /\ gcPc' = "done"
                        /\ selections' = Append(selections, Selected("anthropic", "env"))
    /\ UNCHANGED <<beside, apiKeyEnv, awsOk>>

\* main.go:187-201: when the configuration file is there the Anthropic client
\* is tried; its error is logged and getClient goes on.
GetClientFromConfig ==
    /\ gcPc = "stat"
    /\ IF ~StatFinds(configFile)
       THEN /\ gcPc' = "aws"
            /\ UNCHANGED <<configFile, selections>>
       ELSE LET c == NewAnthropicClient(configFile, apiKeyEnv)
            IN  /\ configFile' = c.file
                /\ IF c.err
                   THEN gcPc' = "aws" /\ UNCHANGED selections
                   ELSE /\ gcPc' = "done"
                        /\ selections' = Append(selections, Selected("anthropic", "config"))
    /\ UNCHANGED <<beside, apiKeyEnv, awsOk>>

\* main.go:203-210: the Bedrock client, or the error that ends main
\* (main.go:259-262).
GetClientAWS ==
    /\ gcPc = "aws"
    /\ gcPc' = "done"
    /\ selections' = Append(selections, IF awsOk THEN Selected("aws", "default")
                                         ELSE Selected("none", "default"))
    /\ UNCHANGED <<beside, apiKeyEnv, configFile, awsOk>>

\* The program is run again with the same environment and the files the
\* run before has left.
NextRun ==
    /\ gcPc = "done"
    /\ Len(selections) < MaxRuns
    /\ gcPc' = "env"
    /\ UNCHANGED <<beside, apiKeyEnv, configFile, awsOk, selections>>

ClientNext ==
    \/ GetClientFromEnv
    \/ GetClientFromConfig
    \/ GetClientAWS
    \/ NextRun

ClientSpec == ClientInit /\ [][ClientNext]_vars

\* ------------------------------------------------------------------ properties

\* sub occurs in text as a contiguous piece.
Contains(text, sub) ==
    \E i \in 0..(Len(text) - Len(sub)) : \A k \in 1..Len(sub) : text[i + k] = sub[k]

\* The executor was called in turn t; the prompt was shown in turn t.
Ran(t) == \E i \in 1..Len(executed) : executed[i].turn = t

Prompted(t) == \E i \in 1..Len(prompts) : prompts[i] = t

\* main has acted on what the call executed[i] returned.
Decided(e) == e.turn < commandCount \/ pc # "decide"

\* The query of the model request that follows turn t, once it is fixed.
QueryAfter(t) == IF Len(requests) > t THEN requests[t + 1] ELSE userQuery

\* A response has come back in the current turn.
Received ==
    \/ pc \in {"parse", "parsed", "confirm", "exec", "decide"}
    \/ pc = "done" /\ outcome \notin {"startup", "fetch"}

\* The log entries written since the current turn began.
IsAsking(e) == e.kind = "Info" /\ e.msg = "Asking Claude for command suggestion..."

TurnLog ==
    IF \E i \in 1..Len(logFile) : IsAsking(logFile[i])
    THEN LET last == CHOOSE i \in 1..Len(logFile) :
                         /\ IsAsking(logFile[i])
                         /\ \A j \in (i + 1)..Len(logFile) : ~IsAsking(logFile[j])
         IN  SubSeq(logFile, last + 1, Len(logFile))
    ELSE <<>>

\* "y" and "yes" in any mix of upper and lower case.
YesWords ==
    {<<a>> : a \in {"y", "Y"}}
    \cup {<<a, b, c>> : a \in {"y", "Y"}, b \in {"e", "E"}, c \in {"s", "S"}}

\* C1: a suggestion whose safe flag is false reaches the executor only in a
\* turn in which the prompt was shown and the line typed was "y" or "yes" in
\* any case; after any other line, the empty line or end of input the command
\* of that turn is not executed and the session is over.
C1_UnsafeRunsOnlyAfterYes ==
    /\ \A i \in 1..Len(executed) :
         LET e == executed[i]
         IN  ~e.cmd.Safe =>
                /\ Prompted(e.turn)
                /\ (e.turn = commandCount /\ pc # "loop") => typed \in YesWords
    /\ (Prompted(commandCount) /\ pc \notin {"confirm", "loop"} /\ typed \notin YesWords) =>
           /\ ~Ran(commandCount)
           /\ pc = "done"

C1_Witness ==
    /\ \E i \in 1..Len(executed) :
         /\ ~executed[i].cmd.Safe
         /\ executed[i].turn = commandCount
    /\ typed = <<"Y", "E", "S">>

\* C2: once the user has declined an unsafe suggestion the process has ended
\* with status 0, the executor was not called for it and nothing was captured,
\* the log got no command or output entry in that turn and is closed, and no
\* model request follows.
C2_DeclineEndsCleanly ==
    outcome = "cancelled" =>
        /\ pc = "done"
        /\ exitCode = 0
        /\ ~Ran(commandCount)
        /\ output = <<>>
        /\ execErr = "nil"
        /\ \A i \in 1..Len(TurnLog) : TurnLog[i].kind \notin {"Command", "Output"}
        /\ logOpen = "closed"
        /\ Len(requests) = commandCount
        /\ ~ENABLED Next

C2_Witness ==
    /\ outcome = "cancelled"
    /\ commandCount = 2
    /\ typed = <<"n">>

C4_FoldingRule ==
    \A t \in 1..(Len(requests) - 1) :
        /\ Ran(t)
        /\ \A i \in 1..Len(executed) :
             LET e == executed[i]
                 q == requests[t + 1]
             IN  e.turn = t =>
                    /\ Contains(q, requests[t])
                    /\ Contains(q, e.cmd.Command)
                    /\ IF e.cmd.NeedsOutput
                       THEN Contains(q, e.output)
                       ELSE \A j \in 1..Len(q) : ~IsLineOfTurn(q[j], t)

C4_Witness ==
    /\ Len(requests) = 2
    /\ executed[1].cmd.NeedsOutput
    /\ Len(executed[1].output) = 2
    /\ executed[1].cmd.Command # <<>>

\* C5: in ask mode nothing is executed and no prompt is shown, and once a
\* suggestion was parsed the session ends with it, whatever its three flags
\* are: at most one model request is made.
C5_AskModeNeverExecutes ==
    askModeOnly =>
        /\ executed = <<>>
        /\ prompts = <<>>
        /\ Len(requests) <= 1
        /\ cmd # NilCommand =>
              /\ pc \in {"parsed", "done"}
              /\ pc = "parsed" => ENABLED AskModeBreak
              /\ pc = "done" => outcome = "ask" /\ exitCode = 0 /\ ~ENABLED Next

C5_Witness ==
    /\ askModeOnly
    /\ outcome = "ask"
    /\ ~cmd.IsFinal
    /\ cmd.NeedsOutput
    /\ ~cmd.Safe

\* C6: when the response of a turn does not decode, the process ends in that
\* turn with a nonzero status: no suggestion is kept, the executor is not
\* called and no prompt is shown in that turn, and the request is not repeated.
C6_UndecodableResponseIsFatal ==
    (Received /\ ParseCommandResponse(modelResponse).err) =>
        /\ pc \in {"parse", "done"}
        /\ cmd = NilCommand
        /\ ~Ran(commandCount)
        /\ ~Prompted(commandCount)
        /\ Len(requests) = commandCount
        /\ pc = "parse" => ENABLED ParseFails
        /\ pc = "done" => outcome = "parse" /\ exitCode = 1 /\ ~ENABLED Next

C6_Witness ==
    /\ outcome = "parse"
    /\ modelResponse = <<FenceJson, Obj("false", "ls", "ls", "true", "false")>>
    /\ commandCount = 2

\* A JSON object in the response has no "command" key.
LacksCommand(response) ==
    \E i \in 1..Len(response) :
        response[i].k = "obj" /\ response[i].command = "absent"

\* C7: a response whose object lacks the command text is a decode failure, so
\* a suggestion that is gated or executed has a command text that is not empty.
C7_MissingFieldIsDecodeFailure ==
    /\ (Received /\ LacksCommand(modelResponse)) => ParseCommandResponse(modelResponse).err
    /\ pc \in {"confirm", "exec"} => cmd.Command # <<>>
    /\ \A i \in 1..Len(executed) : executed[i].cmd.Command # <<>>

\* C8: each turn makes exactly one model request; when it fails the error is
\* logged and the process ends with a nonzero status, with no command
\* executed and no prompt shown in that turn and nothing after it.
C8_FailedRequestIsFatal ==
    /\ Len(requests) = commandCount
    /\ outcome = "fetch" =>
          /\ pc = "done"
          /\ exitCode = 1
          /\ ~Ran(commandCount)
          /\ ~Prompted(commandCount)
          /\ logFile[Len(logFile)] = Entry("Error", "failed to get command suggestion", <<>>)
          /\ ~ENABLED Next

C8_Witness ==
    /\ outcome = "fetch"
    /\ commandCount = 2
    /\ Len(executed) = 1

\* C9: a command that ran and exited with a nonzero status has its error
\* logged, and the loop then ends or goes on by is_final and needs_output
\* alone; when it goes on with needs_output true the next query holds the
\* output captured up to the exit.
C9_NonzeroExitDoesNotStopTheLoop ==
    \A i \in 1..Len(executed) :
        LET e == executed[i]
        IN  e.err = "command failed" =>
               /\ \E j \in 1..Len(logFile) :
                    /\ logFile[j].kind = "Error"
                    /\ logFile[j].msg = "command execution failed"
                    /\ logFile[j].arg = <<Lit(e.err)>> \o e.output
               /\ Decided(e) =>
                     IF e.cmd.IsFinal /\ ~e.cmd.NeedsOutput
                     THEN outcome = "completed" /\ exitCode = 0
                     ELSE /\ Len(requests) > e.turn \/ (pc = "loop" /\ exitCode = -1)
                          /\ e.cmd.NeedsOutput => Contains(QueryAfter(e.turn), e.output)

C9_Witness ==
    /\ Len(requests) = 2
    /\ executed[1].err = "command failed"
    /\ executed[1].output # <<>>
    /\ executed[1].cmd.NeedsOutput

\* C10: when the executor could not start the command the session ends there
\* with an error: main does not go on to complete the task or to another turn.
C10_StartFailureIsFatal ==
    \A i \in 1..Len(executed) :
        executed[i].err = "failed to start command" =>
            /\ executed[i].turn = commandCount
            /\ pc \in {"decide", "done"}
            /\ pc = "done" => exitCode = 1

\* ------------------------------------------------------------------ properties of StreamCommand

\* The tokens of a text that come from one stream, in their order.
OfStream(text, s) == SelectSeq(text, LAMBDA tok : tok.k = s)

\* What the scanner of a drain makes of the whole of a stream: each line with
\* its "\n", an unended last piece with a "\n" added.
LinesOf(s) == [i \in 1..Len(process[s]) |-> TextNewline(process[s][i])]

\* StreamCommand has returned after the subprocess was started.
ReturnedFromRun == shPc = "returned" /\ process.state # "none"

\* Every line the subprocess writes fits the scanner and ends with "\n".
PlainLines == \A s \in Streams : \A i \in 1..Len(process[s]) : process[s][i].v = "line"

\* No line the subprocess writes is too long for the scanner.
NoLongLine == \A s \in Streams : \A i \in 1..Len(process[s]) : process[s][i].v # "long"

\* C11: when command.Start is called, the last entry of the log is the
\* command-issued entry with the text of the command that is being started,
\* written in this call of StreamCommand.
C11_CommandLoggedBeforeStart ==
    shPc \notin {"idle", "start"} =>
        /\ Len(logAtStart) = Len(LogBeforeExec(userQuery, cmd)) + 1
        /\ logAtStart[Len(logAtStart)] = Entry("Command", "", cmd.Command)

\* C12: once StreamCommand has returned, every line that was given to the
\* handler, and so printed, is in the log as an output-line entry that comes
\* after the command-issued entry.
C12_OutputLinesAreLogged ==
    ReturnedFromRun =>
        \A i \in 1..Len(handled) :
            \E j \in (Len(logAtStart) + 1)..Len(logFile) :
                logFile[j] = Entry("Output", "", <<handled[i]>>)

\* C13: the handler is never called twice for a line or out of the order of
\* a stream, and once StreamCommand has returned it has been called for every
\* line of each stream: N + M calls in all.
C13_HandlerOncePerLineInOrder ==
    /\ \A s \in Streams :
         LET h == OfStream(handled, s)
         IN  /\ Len(h) <= Len(process[s])
             /\ h = SubSeq(LinesOf(s), 1, Len(h))
    /\ ReturnedFromRun =>
          /\ \A s \in Streams : OfStream(handled, s) = LinesOf(s)
          /\ Len(handled) = Len(process.stdout) + Len(process.stderr)

\* C14: for a command whose lines all fit the scanner, the output StreamCommand
\* returns holds the lines of stdout in their order and the lines of stderr in
\* theirs, each exactly once, and nothing else.
C14_CaptureHasEveryLineOnce ==
    (ReturnedFromRun /\ PlainLines) =>
        /\ \A s \in Streams : OfStream(output, s) = LinesOf(s)
        /\ Len(output) = Len(process.stdout) + Len(process.stderr)

\* C15: the caller is at command.Wait or beyond only when both drains have
\* sent their signal and ended, and once StreamCommand has returned what it
\* hands back is the whole buffer and no step of a drain is left to take.
C15_WaitOnlyAfterBothDrains ==
    /\ shPc \in {"wait", "read", "returned"} /\ process.state # "none" =>
          \A s \in Streams : dpc[s] = "end"
    /\ ReturnedFromRun =>
          /\ output = combinedOutput
          /\ ~ENABLED ShellNext

C15_Witness ==
    /\ ReturnedFromRun
    /\ Len(process.stdout) = 2
    /\ Len(process.stderr) = 1
    /\ Len(handled) = 3

\* C16: StreamCommand returns a nil error exactly when the subprocess exited
\* with status zero; after a nonzero status, of a command whose lines all fit
\* the scanner, the error is not nil and the output is what the subprocess
\* wrote: the text of each stream, whole and unchanged.
C16_ErrorIffNonzeroAndOutputKept ==
    ReturnedFromRun =>
        /\ execErr = "nil" <=> process.status = 0
        /\ (process.status # 0 /\ NoLongLine) =>
              /\ execErr = "command failed"
              /\ \A s \in Streams : OfStream(output, s) = process[s]

\* ------------------------------------------------------------------ properties of the Logger

RECURSIVE Concat(_)
Concat(texts) == IF texts = <<>> THEN <<>> ELSE Head(texts) \o Concat(Tail(texts))

\* The file as it is when the first k appends, in the order of the mutex,
\* are written and nothing else.
Snapshot(k) == Concat(SubSeq(order, 1, k))

\* What GetRecentHistory makes of a file that holds the text file.
TailOf(file) ==
    History(FileRead(file, StartPos(Len(file)), ReadSize(Len(file))), StartPos(Len(file)))

\* The goroutines that are in the middle of writing an entry.
Writers == {t \in Threads : tpc[t] = "locked" /\ op[t].name \in AppendNames}

\* The histories GetRecentHistory has computed, returned or about to be.
Histories ==
    {r.history : r \in tails}
    \cup {op[t].history : t \in {u \in Threads : /\ tpc[u] = "unlock"
                                                 /\ op[u].name = "GetRecentHistory"}}

\* C17: at most one goroutine is writing an entry at a time; the file is the
\* texts of the appends one after the other, whole, in the order in which
\* the appends got the mutex, the last of them written up to where its
\* writer is.
C17_AppendsDoNotInterleave ==
    /\ Cardinality(Writers) <= 1
    /\ IF Writers = {}
       THEN disk = Snapshot(Len(order))
       ELSE \A t \in Writers :
                /\ order[Len(order)] = op[t].text
                /\ disk = Snapshot(Len(order) - 1) \o SubSeq(op[t].text, 1, op[t].n)

C17_Witness ==
    \E t, u \in Threads :
        /\ tpc[t] = "locked"
        /\ op[t].name = "LogStreamOutput"
        /\ op[t].n = 1
        /\ tpc[u] = "lock"
        /\ op[u].name = "LogInfo"
        /\ completed = 1

\* C18: a history GetRecentHistory has computed holds of every entry either
\* the whole text or no byte of it, also of the entries whose appends ran
\* while the call was under way.
C18_TailSeesNoTornEntry ==
    \A h \in Histories :
        \A i \in 1..Len(order) :
            \/ Contains(h, order[i])
            \/ \A j \in 1..Len(h) : h[j] = NL \/ h[j].e # order[i][2].e

C18_Witness ==
    \E r \in tails :
        /\ r.fileSize > Len(Snapshot(r.invoked))
        /\ r.history # <<>>

\* C19: the history a call of GetRecentHistory returns is the tail of the
\* file as it is after some number of whole appends, and that number is not
\* less than the number of appends that had returned when the call was made:
\* each of those is in the text that was read.
C19_TailSeesCompletedAppends ==
    \A r \in tails :
        /\ \E k \in r.invoked..Len(order) :
             /\ r.fileSize = Len(Snapshot(k))
             /\ r.history = TailOf(Snapshot(k))
        /\ \A i \in 1..r.invoked : Contains(r.history, order[i])

C19_Witness ==
    \E r \in tails :
        /\ r.invoked = 2
        /\ order[1] # EarlierText
        /\ r.history = order[1] \o order[2]

\* C20: a call of GetRecentHistory that finds the file empty returns the
\* empty text and no error.
C20_EmptyLogGivesEmptyHistory ==
    /\ \A r \in tails : r.fileSize = 0 => r.history = <<>> /\ r.err = "nil"
    /\ \A t \in Threads :
         (tpc[t] = "unlock" /\ op[t].name = "GetRecentHistory" /\ op[t].fileSize = 0) =>
             op[t].history = <<>> /\ op[t].err = "nil"

C20_Witness ==
    \E r \in tails :
        /\ r.fileSize = 0
        /\ r.invoked = 0
        /\ disk # <<>>


\* ------------------------------------------------------------------ properties of GetRecentHistory on long logs

\* The positions of the file at which a line begins.
LineStarts(file) == {p \in 1..Len(file) : p = 1 \/ file[p - 1] = NL}

Suffix(file, p) == SubSeq(file, p, Len(file))

\* The lines of a text that are ended by "\n".
CompleteLines(text) == SubSeq(Split(text), 1, Len(Split(text)) - 1)

\* The number of lines of a text, a last piece without "\n" counted as one.
LineCount(text) ==
    Len(CompleteLines(text)) + (IF Split(text)[Len(Split(text))] = <<>> THEN 0 ELSE 1)

\* The lines of the file that lie whole, with their "\n", in its last
\* maxHistoryBytes bytes.
WholeLinesInWindow(file) ==
    LET from == IF Len(file) > maxHistoryBytes THEN Len(file) - maxHistoryBytes ELSE 0
        starts == {p \in LineStarts(file) : p > from}
    IN  IF starts = {} THEN <<>>
        ELSE CompleteLines(Suffix(file, CHOOSE p \in starts : \A q \in starts : p <= q))

LastLines(lines, n) == SubSeq(lines, Len(lines) - n + 1, Len(lines))

\* C21: of a log longer than maxHistoryBytes, the text GetRecentHistory
\* returns does not begin in the middle of a line: if it is not empty it is
\* the file from the first byte of one of its lines to its end.
C21_HistoryBeginsAtLineStart ==
    \A r \in tails :
        (r.fileSize > maxHistoryBytes /\ r.err = "nil" /\ r.history # <<>>) =>
            \E p \in LineStarts(disk) : r.history = Suffix(disk, p)

\* C22: GetRecentHistory returns at most maxHistoryLines lines, and when the
\* last maxHistoryBytes bytes of the log hold that many whole lines or more,
\* the whole lines it returns are the last maxHistoryLines whole lines of
\* the log.
C22_HistoryIsLastLines ==
    \A r \in tails :
        r.err = "nil" =>
            /\ LineCount(r.history) <= maxHistoryLines
            /\ Len(WholeLinesInWindow(disk)) >= maxHistoryLines =>
                   CompleteLines(r.history) =
                       LastLines(WholeLinesInWindow(disk), maxHistoryLines)


\* ------------------------------------------------------------------ properties of the Logger from New to Close

\* The text a begins the text b.
IsPrefix(a, b) == Len(a) <= Len(b) /\ SubSeq(b, 1, Len(a)) = a

\* The text a ends the text b.
IsSuffix(a, b) == Len(a) <= Len(b) /\ SubSeq(b, Len(b) - Len(a) + 1, Len(b)) = a

\* C23: an append method that is about to return has either written its
\* whole text, which ends the file, or has an error to hand to its caller.
C23_AppendLandsOrReportsError ==
    \A t \in Threads :
        (tpc[t] = "unlock" /\ op[t].name \in AppendNames) =>
            \/ op[t].n = Len(op[t].text) /\ IsSuffix(op[t].text, disk)
            \/ op[t].err # "nil"

\* C24: the log is append-only: every step of New, of the append methods, of
\* GetRecentHistory and of Close leaves the file as it was or longer by bytes
\* added at its end.
C24_LogIsAppendOnly == [][IsPrefix(disk, disk')]_vars

C24_Witness ==
    /\ logOpen = "closed"
    /\ completed = 2
    /\ order[1] = EarlierText
    /\ tails # {}
    /\ IsPrefix(EarlierText, disk)
    /\ Len(disk) > Len(EarlierText)


\* ------------------------------------------------------------------ properties of the loop as a whole

\* C25: the turn counter never decreases; a step raises it by one exactly
\* when it sends one request to the model, and by nothing otherwise; main is
\* running until it ends and ended from then on: once it has ended, by
\* completion, cancellation or a fatal error, no request is sent, no
\* confirmation asked, no command executed and the way it ended stays.
C25_TurnsCountRequestsAndMainEndsOnce ==
    [][/\ commandCount' \in {commandCount, commandCount + 1}
       /\ requests' \in {requests} \cup {Append(requests, q) : q \in {userQuery}}
       /\ Len(requests') = commandCount'
       /\ (outcome' = "running") <=> (pc' # "done")
       /\ pc = "done" =>
              UNCHANGED <<pc, outcome, exitCode, commandCount, requests, prompts, executed>>
      ]_vars

C25_Witness ==
    /\ pc = "done"
    /\ outcome = "completed"
    /\ commandCount = 2
    /\ Len(requests) = 2
    /\ Len(executed) = 2


\* ------------------------------------------------------------------ properties of waitWithSpinner

\* The collaborator has answered the request, with a response or an error.
Answered == apiPc # "calling" /\ apiErr # "deadline exceeded"

\* C26: when the response of the collaborator was ready to be received at
\* the moment the select made its choice, waitWithSpinner returns that
\* response and no error, whatever the spinner program did.
C26_SpinnerCannotChangeOutcome ==
    (waitPc \in {"quit", "return"} /\ ready) =>
        result = "response" /\ resultErr = "nil"

\* C27: a request the collaborator never answers ends: either the
\* collaborator answers after all, or main leaves the wait with a failure
\* to get the suggestion and ends.
C27_SilentCollaboratorEndsInFailure ==
    <>(Answered \/ (pc = "done" /\ outcome = "fetch"))


\* ------------------------------------------------------------------ properties of getClient

C29_StreamCommandReturns == <>(shPc \in {"returned", "panicked"})


\* ------------------------------------------------------------------ properties of ExecuteCommand

\* C30: when ExecuteCommand has returned after starting the subprocess, the
\* output returned holds every line the subprocess wrote to stdout and to
\* stderr, in the order of its stream, and no line is written after the
\* return: no reader holds a line it has yet to give to the log handler or
\* to write to the buffer, and the buffer is what was returned.
C30_ExecuteCommandReturnsAllLines ==
    (shPc = "returned" /\ process.state # "none") =>
        /\ \A s \in Streams : OfStream(output, s) = LinesOf(s)
        /\ \A s \in Streams : dpc[s] \notin {"handler", "grow", "copy"}
        /\ combinedOutput = output

\* ------------------------------------------------------------------ properties of the line handler

\* C31, as stated: the line handler is never running in both drain goroutines
\* at the same time.
C31_HandlerInOneDrainAtATime ==
    ~(dpc["stdout"] = "in handler" /\ dpc["stderr"] = "in handler")

\* C31, amended: the two drains can be inside the handler together; what the
\* handler excludes is the caller: an invocation runs only while StreamCommand
\* is blocked on the drains' signals, never once it has received both.
C31_HandlerRunsOnlyWhileCallerWaits ==
    \A s \in Streams :
        dpc[s] \in {"handler", "in handler"} => shPc \in {"recv1", "recv2"}

\* Both drains are inside the handler while StreamCommand waits.
C31_Witness ==
    /\ dpc["stdout"] = "in handler"
    /\ dpc["stderr"] = "in handler"
    /\ shPc = "recv1"

\* ------------------------------------------------------------------ properties of the channels of waitWithSpinner

\* C32: waitWithSpinner never ends with "no response received": done is
\* closed only when main has received what the request goroutine sent, so
\* by then main has left its select with the response or the request's error.
C32_NoResponseReceivedIsUnreachable ==
    /\ resultErr # "no response received"
    /\ doneClosed =>
         /\ waitPc # "select"
         /\ \/ result = "response"
            \/ resultErr \in {"failed to invoke model", "deadline exceeded"}

\* done has been closed and waitWithSpinner is about to return the response.
C32_Witness ==
    /\ doneClosed
    /\ waitPc = "return"
    /\ result = "response"
    /\ resultErr = "nil"

\* C33: once waitWithSpinner has returned and the program goes on, neither of
\* its goroutines is left at a send on responseChan or errChan; main's select
\* was the only receiver, so a goroutine at a send then stays there for good.
C33_NoGoroutineBlockedAfterReturn ==
    pc \notin {"waiting", "done"} =>
        /\ apiPc \notin {"sendResponse", "sendErr"}
        /\ progPc # "sendErr"

\* ------------------------------------------------------------------ properties of the query

\* The text main was started with (main.go:223), as Init has it.
OriginalRequest == <<Word("goal")>>

\* The queries of the session so far: those sent, and the one main holds
\* when it has folded since the last request.
Queries ==
    IF requests # <<>> /\ userQuery = requests[Len(requests)]
    THEN requests
    ELSE Append(requests, userQuery)

\* C34: every query of a session ends with the original request, each query
\* ends with the one before it, and each is longer than the one before it.
C34_QueryKeepsOriginalRequest ==
    /\ Queries[1] = OriginalRequest
    /\ \A i \in 1..Len(Queries) : IsSuffix(OriginalRequest, Queries[i])
    /\ \A i \in 2..Len(Queries) :
         /\ IsSuffix(Queries[i - 1], Queries[i])
         /\ Len(Queries[i]) > Len(Queries[i - 1])

\* Two folds, one of either kind, the first around a command with output.
C34_Witness ==
    /\ Len(Queries) = 3
    /\ Len(executed) = 2
    /\ executed[1].cmd.NeedsOutput
    /\ executed[1].output # <<>>
    /\ ~executed[2].cmd.NeedsOutput

\* ------------------------------------------------------------------ properties of the end of main

\* C35: on every path on which the program ends after the logger was opened,
\* whether by completion, ask mode, cancellation, a failed request, a
\* malformed suggestion or a failed start, the logger has been closed.
C35_LoggerClosedWhenMainEnds ==
    (pc = "done" /\ logOpen # "unopened") => logOpen = "closed"

====
